---- MODULE Spec2Model ----
(***************************************************************************)
(* A model of proxytester's campaign engine (src/src/proxytester.rs):      *)
(* ProxyTester::run spawns one task per loaded proxy; each task acquires   *)
(* a semaphore permit, probes its proxy through curl, sends the outcome on *)
(* a bounded mpsc channel and releases the permit when the task ends; a    *)
(* joiner task awaits every handle and then drops the original sender.     *)
(* The consumer owns the receiver: it receives, may close it (App::exit)   *)
(* and observes end-of-stream.                                             *)
(* The caller of the library (main of src/src/bin/proxytester.rs) sets the *)
(* options, builds the engine, loads proxy files (Proxy::from_str of       *)
(* src/src/proxy.rs, line by line) and either has nothing to test or       *)
(* calls run.                                                              *)
(***************************************************************************)
EXTENDS Integers, Sequences, FiniteSets

VARIABLES
    opts,        \* the caller's ProxyTesterOptions, until build consumes it
    appPc,       \* position of the caller that builds, loads and runs the engine
    linesLoaded, \* the number of input lines of the loads that have returned
    report,      \* what the caller's process has reported: a panic message or a notice
    requested,   \* the value the caller last asked for, for each option
    app,         \* the display's App: selected_proxy, exit, and where its loop is
    other,       \* the other run of the engine, when run was called a second time
    format,     \* ProxyTester.format
    url,        \* ProxyTester.url
    proxies,    \* ProxyTester.proxies: the loaded proxy records
    workers,    \* ProxyTester.workers: the concurrency limit
    timeout,    \* ProxyTester.timeout, in microseconds
    mainPc,     \* position of the caller inside ProxyTester::run
    handles,    \* run's `handles` vector: the units spawned so far, in order
    unit,       \* the spawned async blocks, one per proxy of the snapshot
    permits,    \* available permits of `semaphore`
    senders,    \* live Sender handles of the channel (the original and its clones)
    joinerPc,   \* position of the task that joins all handles
    chan,       \* the channel's buffer, oldest outcome first
    rxClosed,   \* the consumer has closed the receiver (Receiver::close)
    delivered,  \* the outcomes the consumer has received, in order of receipt
    eos,        \* the consumer's recv() has returned None
    call        \* a function of the library applied on its own: arguments and result

(* The state of the caller of the library. *)
client == <<opts, appPc, linesLoaded, report, requested, app, other>>

(* The state of one run: the caller inside run, its tasks and its channel. *)
engine == <<mainPc, handles, unit, permits, senders, joinerPc, chan, rxClosed,
            delivered, eos>>

vars == <<client, format, url, proxies, workers, timeout, engine, call>>

----------------------------------------------------------------------------
(* Bounds of the model. *)
MaxProxies == 2
MaxWorkers == 2
MaxTimeout == 1
MaxLatency == 1
MaxExtra == 1
MaxLines == 2
MaxLoaded == 3
MaxCallLatency == 4
MaxCallTimeout == 4
MaxParts == 5
MaxStray == 2
MaxSurplus == 2
MaxRunProxies == 1
MaxSetup == 1
MaxSlack == 1

(* Program constants. *)
CHANNEL_SIZE == 100

U16_MAX == 65535

(* The proxy records of a run, named: what a record holds plays no part in *)
(* how run schedules it.                                                   *)
ProxyPool == {"p1", "p2"}

(* std::time::Duration, counted in microseconds. *)
from_millis(n) == n * 1000
as_millis(d) == d \div 1000

(* A target URL: its scheme, in lower case as curl reads it ("" when the   *)
(* URL has none), and what follows "://".                                  *)
Url(scheme, rest) == [scheme |-> scheme, rest |-> rest]
NoUrl == Url("-", "-")
HttpUrl == Url("http", "t.test")
HttpsUrl == Url("https", "t.test")
OddUrl == Url("foo", "t.test")
UrlPool == {HttpUrl, HttpsUrl, OddUrl}

(* Further targets of a single probe: an ftp URL, a URL without a scheme,  *)
(* and the file URLs of a file that is there and of one that is not.       *)
FtpUrl == Url("ftp", "t.test/f")
BareUrl == Url("", "t.test")
FileUrl == Url("file", "/etc/hostname")
NoFileUrl == Url("file", "/nonexistent")
CallUrls == UrlPool \cup {FtpUrl, BareUrl, FileUrl, NoFileUrl}

(* The local files the process can read, of those the URLs name. *)
Files == {"/etc/hostname"}

(* How curl fetches a URL when a proxy is set. An http or ftp URL, or one  *)
(* without a scheme, which curl takes for http, is asked of the proxy in a *)
(* plain request; an https URL goes through a tunnel the proxy opens on    *)
(* CONNECT; a file URL is read from the disk and the proxy is not          *)
(* contacted; for any other scheme of these URLs curl has no handler.      *)
Requests(x) == x.scheme \in {"http", "ftp", ""}
Tunnels(x) == x.scheme = "https"
Local(x) == x.scheme = "file"
Supported(x) == Requests(x) \/ Tunnels(x) \/ Local(x)

(* The timeouts of the runs that are followed with any number of permits:  *)
(* none, which libcurl takes for no limit, and one millisecond.            *)
TimeoutPool == {0, from_millis(1)}

(* The timeouts a caller sets: whole milliseconds. *)
Timeouts == {from_millis(m) : m \in 0..MaxTimeout}

(* What the network does with a probe. The proxy's name does not resolve,  *)
(* the connection to it is refused, or the proxy accepts the connection    *)
(* and reads the first request: for an https URL the CONNECT that opens    *)
(* the tunnel, for an http URL the request itself. It answers that request *)
(* with net.status, or gives no answer (status 0): it closes the           *)
(* connection in order (curl reads the end of the stream), the connection  *)
(* is reset (curl's read fails), or the proxy stays silent. net.then says  *)
(* how the exchange ends; after a 2xx answer to a CONNECT it is what comes *)
(* through the tunnel: a TLS server with a trusted certificate that        *)
(* answers the request, the end of the connection, a TLS server whose      *)
(* certificate is not trusted, or nothing at all.                          *)
Unresolved == [connects |-> FALSE, status |-> 0, then |-> "unresolved"]
Refuse == [connects |-> FALSE, status |-> 0, then |-> "refused"]
Hangup == [connects |-> TRUE, status |-> 0, then |-> "close"]
Reset == [connects |-> TRUE, status |-> 0, then |-> "reset"]
Silent == [connects |-> TRUE, status |-> 0, then |-> "hang"]
RespondThen(s, th) == [connects |-> TRUE, status |-> s, then |-> th]
Respond(s) == RespondThen(s, "answer")
StatusPool == {201, 404}
TunnelEnds == {"answer", "close", "untrusted", "hang"}

(* The proxies that refuse or answer. *)
Prompt == {Refuse} \cup {Respond(s) : s \in StatusPool}

(* The proxies of the runs that are followed with any number of permits. *)
NetBehaviours == Prompt \cup {Silent}

(* The proxies a single probe is tried against: what a proxy does with a   *)
(* plain request, and with a tunnel.                                       *)
Plain == {Unresolved, Refuse, Hangup, Reset, Silent} \cup {Respond(s) : s \in StatusPool}
Tunnelled ==
    Plain \cup {RespondThen(s, th) : s \in {c \in StatusPool : c \div 100 = 2}, th \in TunnelEnds}
BehavioursFor(x) == IF Tunnels(x) THEN Tunnelled ELSE Plain

----------------------------------------------------------------------------
(* Result<ProxyTestSuccess, ProxyTestError> *)
NoResult == [kind |-> "None", duration |-> 0, cause |-> "-"]
ProxyTestSuccess(d) == [kind |-> "Ok", duration |-> d, cause |-> "-"]
CurlError(c) == [kind |-> "CurlError", duration |-> 0, cause |-> c]
SemaphoreAcquireError == [kind |-> "SemaphoreAcquireError", duration |-> 0, cause |-> "AcquireError"]
UnknownError == [kind |-> "UnknownError", duration |-> 0, cause |-> "-"]

(* No display is running. *)
NoApp ==
    [pc |-> "none", proxy_count |-> 0, selected_proxy |-> 0, exit |-> FALSE,
     overflow_checks |-> FALSE]

(* run was not called a second time. *)
NoOther == [run |-> 0]

(* No function is applied on its own. *)
NoCall == [fn |-> "-"]

(* ProxyTest { proxy, result } *)
ProxyTest(p, r) == [proxy |-> p, result |-> r]

(* The closure given to spawn_blocking: it reads the clock, sets up a curl *)
(* handle, has curl perform one transfer for the URL x with the proxy set  *)
(* and reads the clock again. Times are in milliseconds: setup is what the *)
(* closure spends outside the transfer, latency how long the transfer      *)
(* takes until the network (or the disk) has done its part, slack how late *)
(* curl looks at its limit. curl takes the timeout in whole milliseconds,  *)
(* and 0 for no limit. A scheme curl has no handler for fails before any   *)
(* connection. A transfer that is still going on when curl looks at its    *)
(* limit ends with OperationTimedout, whatever it was waiting for; one     *)
(* that waits for a silent peer under no limit does not end. The success   *)
(* carries the time between the two clock readings.                        *)

(* The limit curl goes by: CURLOPT_TIMEOUT_MS. *)
Limit(t) == as_millis(t)

(* The transfer waits for bytes that never come. *)
Stalls(x, net) ==
    /\ ~Local(x)
    /\ net.connects
    /\ net.then = "hang"
    /\ net.status = 0 \/ (Tunnels(x) /\ net.status \div 100 = 2)

(* easy.perform() returns. *)
Returns(x, net, t) == ~Supported(x) \/ ~Stalls(x, net) \/ Limit(t) > 0

(* What the transfer ends with when curl's limit does not cut it short. *)
Transfer(x, net, d) ==
    IF Local(x)
        THEN IF x.rest \in Files THEN ProxyTestSuccess(d)
             ELSE CurlError("FileCouldntReadFile")
    ELSE IF net.then = "unresolved" THEN CurlError("CouldntResolveProxy")
    ELSE IF ~net.connects THEN CurlError("CouldntConnect")
    ELSE IF net.status = 0
        THEN CurlError(IF Tunnels(x) \/ net.then = "reset"
                       THEN "RecvError" ELSE "GotNothing")
    ELSE IF Requests(x) THEN ProxyTestSuccess(d)
    ELSE IF net.status \div 100 /= 2 THEN CurlError("RecvError")
    ELSE IF net.then = "close" THEN CurlError("SslConnectError")
    ELSE IF net.then = "untrusted" THEN CurlError("PeerFailedVerification")
    ELSE ProxyTestSuccess(d)

Perform(x, net, setup, latency, slack, t) ==
    IF ~Supported(x) THEN CurlError("UnsupportedProtocol")
    ELSE IF Stalls(x, net)
        THEN IF Limit(t) > 0 THEN CurlError("OperationTimedout") ELSE NoResult
    ELSE IF Limit(t) > 0 /\ latency >= Limit(t) + slack THEN CurlError("OperationTimedout")
    ELSE Transfer(x, net, from_millis(setup + latency))

----------------------------------------------------------------------------
(* Option<T>: None, or Some(v) *)
None == <<>>
Some(v) == <<v>>

(* Result<T, E> *)
Ok(v) == [ok |-> TRUE, value |-> <<v>>, error |-> "-"]
Err(e) == [ok |-> FALSE, value |-> <<>>, error |-> e]

(* src/src/proxy.rs *)
HostPortUsernamePassword == "HostPortUsernamePassword"

(* Proxy::new *)
Proxy(host, port, username, password) ==
    [host |-> host, port |-> port, username |-> username, password |-> password]

(* A line is the sequence of its characters. str::split(':') *)
RECURSIVE Split(_)
Split(s) ==
    IF \A i \in 1..Len(s) : s[i] /= ":" THEN << s >>
    ELSE LET k == CHOOSE i \in 1..Len(s) : s[i] = ":" /\ \A j \in 1..(i - 1) : s[j] /= ":"
         IN  << SubSeq(s, 1, k - 1) >> \o Split(SubSeq(s, k + 1, Len(s)))

Digits == << "0", "1", "2", "3", "4", "5", "6", "7", "8", "9" >>
IsDigit(c) == \E d \in 1..10 : Digits[d] = c
DigitVal(c) == (CHOOSE d \in 1..10 : Digits[d] = c) - 1

RECURSIVE DecimalValue(_)
DecimalValue(ds) ==
    IF ds = << >> THEN 0
    ELSE 10 * DecimalValue(SubSeq(ds, 1, Len(ds) - 1)) + DigitVal(ds[Len(ds)])

(* str::parse::<u16>(): an optional '+', then one or more decimal digits   *)
(* whose value fits 16 bits; None stands for the ParseIntError.            *)
ParseU16(s) ==
    LET ds == IF s /= << >> /\ s[1] = "+" THEN Tail(s) ELSE s IN
    IF ds = << >> \/ \E i \in 1..Len(ds) : ~IsDigit(ds[i]) THEN None
    ELSE IF DecimalValue(ds) > U16_MAX THEN None
    ELSE Some(DecimalValue(ds))

(* from_str that takes the first four of four or more fields. *)
from_strAtLeastFour(fmt, line) ==
    LET parts == Split(line) IN
    IF Len(parts) < 4 THEN Err("InvalidProxyPartAmountError")
    ELSE LET port == ParseU16(parts[2]) IN
         IF port = None THEN Err("ProxyPortNaNError")
         ELSE Ok(Proxy(parts[1], port[1], Some(parts[3]), Some(parts[4])))

(* Proxy::from_str *)
from_str(fmt, line) ==
    LET parts == Split(line) IN
    IF Len(parts) /= 4 THEN Err("InvalidProxyPartAmountError")
    ELSE LET port == ParseU16(parts[2]) IN
         IF port = None THEN Err("ProxyPortNaNError")
         ELSE Ok(Proxy(parts[1], port[1], Some(parts[3]), Some(parts[4])))

(* <u16 as Display>::fmt: the decimal numeral of n *)
RECURSIVE RenderDecimal(_)
RenderDecimal(n) ==
    IF n < 10 THEN << Digits[n + 1] >>
    ELSE RenderDecimal(n \div 10) \o << Digits[(n % 10) + 1] >>

(* The literal pieces of the format string "http://{}:{}@{}:{}" *)
Scheme == << "h", "t", "t", "p", ":", "/", "/" >>

(* to_string that writes the credentials in the order password, username. *)
to_stringSwapped(p) ==
    IF p.username = None \/ p.password = None
    THEN Err("called Option::unwrap() on a None value")
    ELSE Ok(Scheme \o p.password[1] \o << ":" >> \o p.username[1] \o << "@" >>
                   \o p.host \o << ":" >> \o RenderDecimal(p.port))

(* <Proxy as Display>::fmt through to_string(): the arguments of write!    *)
(* are evaluated first, and unwrap() of an absent username or password     *)
(* panics; Err stands for that panic.                                      *)
to_string(p) ==
    IF p.username = None \/ p.password = None
    THEN Err("called Option::unwrap() on a None value")
    ELSE Ok(Scheme \o p.username[1] \o << ":" >> \o p.password[1] \o << "@" >>
                   \o p.host \o << ":" >> \o RenderDecimal(p.port))

(* The fields lines are made of: empty, a name, and port fields: plain,    *)
(* with a leading zero, with a sign, the largest port and the least        *)
(* number that is no port.                                                 *)
FieldPool ==
    { << >>, << "h" >>, << "8", "0" >>, << "0", "8", "0" >>, << "+", "8", "0" >>,
      << "6", "5", "5", "3", "5" >>, << "6", "5", "5", "3", "6" >> }

(* The line whose fields, separated by ':', are parts. *)
RECURSIVE Join(_)
Join(parts) ==
    IF Len(parts) = 1 THEN parts[1]
    ELSE parts[1] \o << ":" >> \o Join(Tail(parts))

(* The input lines of the model: two well-formed lines, one of them with   *)
(* empty credentials, a line of two fields, and two lines whose port is    *)
(* no 16-bit number.                                                       *)
LinePool ==
    { << "h", ":", "8", "0", ":", "u", ":", "p" >>,
      << "g", ":", "1", ":", ":" >>,
      << "h", ":", "8", "0" >>,
      << "h", ":", "x", ":", "u", ":", "p" >>,
      << "h", ":", "6", "5", "5", "3", "6", ":", "u", ":", "p" >> }

----------------------------------------------------------------------------
(* The units of the run: one for each proxy that was loaded when run       *)
(* went through the list.                                                  *)
Units == 1..Len(unit)

Finished == {"done", "panicked"}

NewUnit(p) == [pc |-> "unspawned", proxy |-> p, permit |-> FALSE, result |-> NoResult]

SeqsUpTo(S, n) == UNION {[1..m -> S] : m \in 0..n}

(* A path given to load_from_file: whether a file can be opened there, the *)
(* lines BufReader::lines yields from it, and the error of the read that   *)
(* follows them, "-" when the lines end with the file. A directory opens   *)
(* and fails at the first read; bytes that are not UTF-8 fail the read of  *)
(* their line, which is one of the up to MaxLines lines of the file.       *)
FilePool ==
    {[exists |-> FALSE, lines |-> << >>, fails |-> "-"]}
        \cup {[exists |-> TRUE, lines |-> << >>, fails |-> "IsADirectory"]}
        \cup {[exists |-> TRUE, lines |-> l, fails |-> "-"] : l \in SeqsUpTo(LinePool, MaxLines)}
        \cup {[exists |-> TRUE, lines |-> l, fails |-> "InvalidData"] :
                  l \in SeqsUpTo(LinePool, MaxLines - 1)}

(* ProxyTesterOptions::new and <ProxyTesterOptions as Default>::default *)
OptionsNew == [format |-> None, workers |-> None, timeout |-> None, url |-> None]

(* ProxyTester::builder *)
builder == OptionsNew

(* Defaults that leave the URL out. *)
OptionsDefaultNoUrl ==
    [format |-> Some(HostPortUsernamePassword), workers |-> Some(5),
     timeout |-> Some(from_millis(5000)), url |-> None]

(* Default for ProxyTesterOptions *)
OptionsDefault ==
    [format |-> Some(HostPortUsernamePassword), workers |-> Some(5),
     timeout |-> Some(from_millis(5000)), url |-> Some(Url("https", "google.com"))]

(* The engine is built and loaded, and run() has created the semaphore and *)
(* the channel and is about to enter its loop over the proxies.            *)
Init ==
    /\ proxies \in SeqsUpTo(ProxyPool, MaxProxies)
    /\ workers \in 0..MaxWorkers
    /\ timeout \in Timeouts \cup {999}
    /\ format = HostPortUsernamePassword
    /\ url \in UrlPool
    /\ opts = [format |-> Some(format), workers |-> Some(workers),
               timeout |-> Some(timeout), url |-> Some(url)]
    /\ appPc = "run"
    /\ linesLoaded = Len(proxies)
    /\ report = "-"
    /\ requested = opts
    /\ app = NoApp
    /\ other = NoOther
    /\ mainPc = "loop"
    /\ handles = <<>>
    /\ unit = [u \in 1..Len(proxies) |-> NewUnit(proxies[u])]
    /\ permits = workers
    /\ senders = 1
    /\ joinerPc = "unspawned"
    /\ chan = <<>>
    /\ rxClosed = FALSE
    /\ delivered = <<>>
    /\ eos = FALSE
    /\ call = NoCall

(* A run of more than CHANNEL_SIZE proxies, taken up while the caller is   *)
(* still in its loop: the first CHANNEL_SIZE units have been spawned, have *)
(* probed a proxy that refused and have pushed their outcomes, which fill  *)
(* the buffer (no consumer holds the receiver before run returns); the     *)
(* units of the remaining proxies are not spawned yet. The gate has one    *)
(* permit and the timeout is one millisecond.                              *)
DoneUnit(p) == [pc |-> "done", proxy |-> p, permit |-> FALSE, result |-> NoResult]

InitBulk ==
    /\ \E m \in 1..MaxExtra :
          proxies = [i \in 1..(CHANNEL_SIZE + m) |-> IF i <= CHANNEL_SIZE THEN "p1" ELSE "p2"]
    /\ workers = 1
    /\ timeout = from_millis(1)
    /\ format = HostPortUsernamePassword
    /\ url = HttpUrl
    /\ opts = [format |-> Some(format), workers |-> Some(workers),
               timeout |-> Some(timeout), url |-> Some(url)]
    /\ appPc = "run"
    /\ linesLoaded = Len(proxies)
    /\ report = "-"
    /\ requested = opts
    /\ app = NoApp
    /\ other = NoOther
    /\ mainPc = "loop"
    /\ handles = [i \in 1..CHANNEL_SIZE |-> i]
    /\ unit = [u \in 1..Len(proxies) |->
                  IF u <= CHANNEL_SIZE THEN DoneUnit(proxies[u]) ELSE NewUnit(proxies[u])]
    /\ permits = workers
    /\ senders = 1
    /\ joinerPc = "unspawned"
    /\ chan = [i \in 1..CHANNEL_SIZE |-> ProxyTest(proxies[i], CurlError("CouldntConnect"))]
    /\ rxClosed = FALSE
    /\ delivered = <<>>
    /\ eos = FALSE
    /\ call = NoCall

(* A run as in InitBulk with two or more proxies beyond CHANNEL_SIZE: a    *)
(* run of at least CHANNEL_SIZE + 2 proxies with one permit.               *)
InitSurplus ==
    /\ \E m \in 2..MaxSurplus :
          proxies = [i \in 1..(CHANNEL_SIZE + m) |-> IF i <= CHANNEL_SIZE THEN "p1" ELSE "p2"]
    /\ workers = 1
    /\ timeout = from_millis(1)
    /\ format = HostPortUsernamePassword
    /\ url = HttpUrl
    /\ opts = [format |-> Some(format), workers |-> Some(workers),
               timeout |-> Some(timeout), url |-> Some(url)]
    /\ appPc = "run"
    /\ linesLoaded = Len(proxies)
    /\ report = "-"
    /\ requested = opts
    /\ app = NoApp
    /\ other = NoOther
    /\ mainPc = "loop"
    /\ handles = [i \in 1..CHANNEL_SIZE |-> i]
    /\ unit = [u \in 1..Len(proxies) |->
                  IF u <= CHANNEL_SIZE THEN DoneUnit(proxies[u]) ELSE NewUnit(proxies[u])]
    /\ permits = workers
    /\ senders = 1
    /\ joinerPc = "unspawned"
    /\ chan = [i \in 1..CHANNEL_SIZE |-> ProxyTest(proxies[i], CurlError("CouldntConnect"))]
    /\ rxClosed = FALSE
    /\ delivered = <<>>
    /\ eos = FALSE
    /\ call = NoCall

----------------------------------------------------------------------------
(* ProxyTester::run, the caller's side *)

(* One iteration of the loop: clone the sender, spawn the unit, push its handle. *)
Spawn ==
    /\ mainPc = "loop"
    /\ Len(handles) < Len(proxies)
    /\ LET u == Len(handles) + 1 IN
        /\ unit' = [unit EXCEPT ![u].pc = "waiting"]
        /\ handles' = Append(handles, u)
    /\ senders' = senders + 1
    /\ UNCHANGED <<proxies, workers, timeout, mainPc, permits, joinerPc, chan,
                   rxClosed, delivered, eos>>
    /\ UNCHANGED <<client, format, url, call>>

(* SpawnJoiner with a loop that stops one proxy short. *)
SpawnJoinerEarly ==
    /\ mainPc = "loop"
    /\ Len(handles) >= Len(proxies) - 1
    /\ mainPc' = "return"
    /\ joinerPc' = "joining"
    /\ UNCHANGED <<proxies, workers, timeout, handles, unit, permits, senders,
                   chan, rxClosed, delivered, eos>>
    /\ UNCHANGED <<client, format, url, call>>

(* After the loop: spawn the task that joins the handles; it takes the sender. *)
SpawnJoiner ==
    /\ mainPc = "loop"
    /\ Len(handles) = Len(proxies)
    /\ mainPc' = "return"
    /\ joinerPc' = "joining"
    /\ UNCHANGED <<proxies, workers, timeout, handles, unit, permits, senders,
                   chan, rxClosed, delivered, eos>>
    /\ UNCHANGED <<client, format, url, call>>

(* Return that first waits until the joiner has closed the stream. *)
ReturnAfterJoin ==
    /\ mainPc = "return"
    /\ joinerPc = "dropped"
    /\ mainPc' = "returned"
    /\ UNCHANGED <<proxies, workers, timeout, handles, unit, permits, senders,
                   joinerPc, chan, rxClosed, delivered, eos>>
    /\ UNCHANGED <<client, format, url, call>>

(* run returns the receiver to the caller. *)
Return ==
    /\ mainPc = "return"
    /\ mainPc' = "returned"
    /\ UNCHANGED <<proxies, workers, timeout, handles, unit, permits, senders,
                   joinerPc, chan, rxClosed, delivered, eos>>
    /\ UNCHANGED <<client, format, url, call>>

----------------------------------------------------------------------------
(* The async block of one unit *)

(* Acquire that does not wait for a permit. *)
AcquireNoWait(u) ==
    /\ unit[u].pc = "waiting"
    /\ permits' = IF permits > 0 THEN permits - 1 ELSE 0
    /\ unit' = [unit EXCEPT ![u].pc = "running", ![u].permit = TRUE]
    /\ UNCHANGED <<proxies, workers, timeout, mainPc, handles, senders, joinerPc,
                   chan, rxClosed, delivered, eos>>
    /\ UNCHANGED <<client, format, url, call>>

(* Acquire that does not wait at an exhausted gate: the unit reports the   *)
(* failed acquire as its outcome.                                          *)
AcquireOrError(u) ==
    /\ unit[u].pc = "waiting"
    /\ IF permits > 0
       THEN /\ permits' = permits - 1
            /\ unit' = [unit EXCEPT ![u].pc = "running", ![u].permit = TRUE]
       ELSE /\ permits' = permits
            /\ unit' = [unit EXCEPT ![u].pc = "sending",
                                    ![u].result = SemaphoreAcquireError]
    /\ UNCHANGED <<proxies, workers, timeout, mainPc, handles, senders, joinerPc,
                   chan, rxClosed, delivered, eos>>
    /\ UNCHANGED <<client, format, url, call>>

(* Acquire that gives up on the gate once the receiver is closed. *)
AcquireUnlessCancelled(u) ==
    /\ unit[u].pc = "waiting"
    /\ ~rxClosed
    /\ permits > 0
    /\ permits' = permits - 1
    /\ unit' = [unit EXCEPT ![u].pc = "running", ![u].permit = TRUE]
    /\ UNCHANGED <<proxies, workers, timeout, mainPc, handles, senders, joinerPc,
                   chan, rxClosed, delivered, eos>>
    /\ UNCHANGED <<client, format, url, call>>

(* Acquire that takes a permit without counting it. *)
AcquireUncounted(u) ==
    /\ unit[u].pc = "waiting"
    /\ permits > 0
    /\ unit' = [unit EXCEPT ![u].pc = "running", ![u].permit = TRUE]
    /\ UNCHANGED <<proxies, workers, timeout, mainPc, handles, permits, senders,
                   joinerPc, chan, rxClosed, delivered, eos>>
    /\ UNCHANGED <<client, format, url, call>>

(* semaphore.acquire().await: suspended while no permit is available. *)
Acquire(u) ==
    /\ unit[u].pc = "waiting"
    /\ permits > 0
    /\ permits' = permits - 1
    /\ unit' = [unit EXCEPT ![u].pc = "running", ![u].permit = TRUE]
    /\ UNCHANGED <<proxies, workers, timeout, mainPc, handles, senders, joinerPc,
                   chan, rxClosed, delivered, eos>>
    /\ UNCHANGED <<client, format, url, call>>

(* ProbeComplete that gives the permit back as soon as the probe ends. *)
ProbeCompleteReleasing(u, net, setup, latency, slack) ==
    /\ unit[u].pc = "running"
    /\ Returns(url, net, timeout)
    /\ permits' = permits + 1
    /\ unit' = [unit EXCEPT ![u].pc = "sending", ![u].permit = FALSE,
                            ![u].result = Perform(url, net, setup, latency, slack, timeout)]
    /\ UNCHANGED <<proxies, workers, timeout, mainPc, handles, senders,
                   joinerPc, chan, rxClosed, delivered, eos>>
    /\ UNCHANGED <<client, format, url, call>>

(* ProbeComplete that unwraps the probe's result: a failure panics the unit. *)
ProbeCompleteAbortOnError(u, net, setup, latency, slack) ==
    /\ unit[u].pc = "running"
    /\ Returns(url, net, timeout)
    /\ LET r == Perform(url, net, setup, latency, slack, timeout) IN
         unit' = [unit EXCEPT ![u].pc = IF r.kind = "Ok" THEN "sending" ELSE "panicking",
                              ![u].result = IF r.kind = "Ok" THEN r ELSE NoResult]
    /\ UNCHANGED <<proxies, workers, timeout, mainPc, handles, permits, senders,
                   joinerPc, chan, rxClosed, delivered, eos>>
    /\ UNCHANGED <<client, format, url, call>>

(* ProbeComplete that retries a failed probe: the unit gives its permit    *)
(* back and queues at the gate again.                                      *)
ProbeCompleteRetry(u, net, setup, latency, slack) ==
    /\ unit[u].pc = "running"
    /\ Returns(url, net, timeout)
    /\ LET r == Perform(url, net, setup, latency, slack, timeout) IN
         /\ unit' = [unit EXCEPT ![u].pc = IF r.kind = "Ok" THEN "sending" ELSE "waiting",
                                 ![u].permit = (r.kind = "Ok"),
                                 ![u].result = IF r.kind = "Ok" THEN r ELSE NoResult]
         /\ permits' = IF r.kind = "Ok" THEN permits ELSE permits + 1
    /\ UNCHANGED <<proxies, workers, timeout, mainPc, handles, senders,
                   joinerPc, chan, rxClosed, delivered, eos>>
    /\ UNCHANGED <<client, format, url, call>>

(* spawn_blocking(...).await: the probe ends with its result. A probe      *)
(* whose transfer does not return stays where it is.                       *)
ProbeComplete(u, net, setup, latency, slack) ==
    /\ unit[u].pc = "running"
    /\ Returns(url, net, timeout)
    /\ unit' = [unit EXCEPT ![u].pc = "sending",
                            ![u].result = Perform(url, net, setup, latency, slack, timeout)]
    /\ UNCHANGED <<proxies, workers, timeout, mainPc, handles, permits, senders,
                   joinerPc, chan, rxClosed, delivered, eos>>
    /\ UNCHANGED <<client, format, url, call>>

(* SendOk that pushes the outcome twice. *)
SendOkTwice(u) ==
    /\ unit[u].pc = "sending"
    /\ ~rxClosed
    /\ Len(chan) < CHANNEL_SIZE
    /\ chan' = chan \o << ProxyTest(unit[u].proxy, unit[u].result),
                          ProxyTest(unit[u].proxy, unit[u].result) >>
    /\ unit' = [unit EXCEPT ![u].pc = "sent", ![u].result = NoResult]
    /\ UNCHANGED <<proxies, workers, timeout, mainPc, handles, permits, senders,
                   joinerPc, rxClosed, delivered, eos>>
    /\ UNCHANGED <<client, format, url, call>>

(* SendOk that ignores that the receiver is closed. *)
SendOkIgnoreClosed(u) ==
    /\ unit[u].pc = "sending"
    /\ Len(chan) < CHANNEL_SIZE
    /\ chan' = Append(chan, ProxyTest(unit[u].proxy, unit[u].result))
    /\ unit' = [unit EXCEPT ![u].pc = "sent", ![u].result = NoResult]
    /\ UNCHANGED <<proxies, workers, timeout, mainPc, handles, permits, senders,
                   joinerPc, rxClosed, delivered, eos>>
    /\ UNCHANGED <<client, format, url, call>>

(* SendOk that pushes whether or not the buffer has a free slot. *)
SendOkNoCapacity(u) ==
    /\ unit[u].pc = "sending"
    /\ ~rxClosed
    /\ chan' = Append(chan, ProxyTest(unit[u].proxy, unit[u].result))
    /\ unit' = [unit EXCEPT ![u].pc = "sent", ![u].result = NoResult]
    /\ UNCHANGED <<proxies, workers, timeout, mainPc, handles, permits, senders,
                   joinerPc, rxClosed, delivered, eos>>
    /\ UNCHANGED <<client, format, url, call>>

(* sender.send(..).await returns Ok: the outcome is in the buffer. The     *)
(* send is suspended while the buffer is full and the receiver is open.    *)
SendOk(u) ==
    /\ unit[u].pc = "sending"
    /\ ~rxClosed
    /\ Len(chan) < CHANNEL_SIZE
    /\ chan' = Append(chan, ProxyTest(unit[u].proxy, unit[u].result))
    /\ unit' = [unit EXCEPT ![u].pc = "sent", ![u].result = NoResult]
    /\ UNCHANGED <<proxies, workers, timeout, mainPc, handles, permits, senders,
                   joinerPc, rxClosed, delivered, eos>>
    /\ UNCHANGED <<client, format, url, call>>

(* SendErr that sees the closed receiver only once the buffer has room. *)
SendErrOnlyIfRoom(u) ==
    /\ unit[u].pc = "sending"
    /\ rxClosed
    /\ Len(chan) < CHANNEL_SIZE
    /\ unit' = [unit EXCEPT ![u].pc = "panicking", ![u].result = NoResult]
    /\ UNCHANGED <<proxies, workers, timeout, mainPc, handles, permits, senders,
                   joinerPc, chan, rxClosed, delivered, eos>>
    /\ UNCHANGED <<client, format, url, call>>

(* sender.send(..).await returns Err because the receiver is closed, and   *)
(* unwrap() panics: the outcome is dropped and the task unwinds.           *)
SendErr(u) ==
    /\ unit[u].pc = "sending"
    /\ rxClosed
    /\ unit' = [unit EXCEPT ![u].pc = "panicking", ![u].result = NoResult]
    /\ UNCHANGED <<proxies, workers, timeout, mainPc, handles, permits, senders,
                   joinerPc, chan, rxClosed, delivered, eos>>
    /\ UNCHANGED <<client, format, url, call>>

(* DropPermit that gives the permit back only on the normal path. *)
DropPermitLeakOnPanic(u) ==
    /\ unit[u].pc \in {"sent", "panicking"}
    /\ permits' = IF unit[u].pc = "sent" THEN permits + 1 ELSE permits
    /\ unit' = [unit EXCEPT ![u].pc = IF unit[u].pc = "sent" THEN "exiting" ELSE "unwinding",
                            ![u].permit = FALSE]
    /\ UNCHANGED <<proxies, workers, timeout, mainPc, handles, senders, joinerPc,
                   chan, rxClosed, delivered, eos>>
    /\ UNCHANGED <<client, format, url, call>>

(* The end of the async block, reached normally or by unwinding: the       *)
(* locals are dropped first, and _permit gives its permit back to the      *)
(* gate. The task still owns what it captured, its sender clone included.  *)
DropPermit(u) ==
    /\ unit[u].pc \in {"sent", "panicking"}
    /\ permits' = permits + 1
    /\ unit' = [unit EXCEPT ![u].pc = IF unit[u].pc = "sent" THEN "exiting" ELSE "unwinding",
                            ![u].permit = FALSE]
    /\ UNCHANGED <<proxies, workers, timeout, mainPc, handles, senders, joinerPc,
                   chan, rxClosed, delivered, eos>>
    /\ UNCHANGED <<client, format, url, call>>

(* The task ends: what the async block captured is dropped, the sender     *)
(* clone with it, and the handle becomes ready.                            *)
Exit(u) ==
    /\ unit[u].pc \in {"exiting", "unwinding"}
    /\ senders' = senders - 1
    /\ unit' = [unit EXCEPT ![u].pc = IF unit[u].pc = "exiting" THEN "done" ELSE "panicked"]
    /\ UNCHANGED <<proxies, workers, timeout, mainPc, handles, permits, joinerPc,
                   chan, rxClosed, delivered, eos>>
    /\ UNCHANGED <<client, format, url, call>>

----------------------------------------------------------------------------
(* The joiner task *)

(* JoinAll that needs a handle to complete. *)
JoinAllSomeHandle ==
    /\ joinerPc = "joining"
    /\ handles /= <<>>
    /\ \A i \in 1..Len(handles) : unit[handles[i]].pc \in Finished
    /\ joinerPc' = "joined"
    /\ UNCHANGED <<proxies, workers, timeout, mainPc, handles, unit, permits,
                   senders, chan, rxClosed, delivered, eos>>
    /\ UNCHANGED <<client, format, url, call>>

(* JoinAll that completes as soon as one handle is ready. *)
JoinAllAny ==
    /\ joinerPc = "joining"
    /\ \/ handles = <<>>
       \/ \E i \in 1..Len(handles) : unit[handles[i]].pc \in Finished
    /\ joinerPc' = "joined"
    /\ UNCHANGED <<proxies, workers, timeout, mainPc, handles, unit, permits,
                   senders, chan, rxClosed, delivered, eos>>
    /\ UNCHANGED <<client, format, url, call>>

(* join_all(handles).await completes once every handle is ready. *)
JoinAll ==
    /\ joinerPc = "joining"
    /\ \A i \in 1..Len(handles) : unit[handles[i]].pc \in Finished
    /\ joinerPc' = "joined"
    /\ UNCHANGED <<proxies, workers, timeout, mainPc, handles, unit, permits,
                   senders, chan, rxClosed, delivered, eos>>
    /\ UNCHANGED <<client, format, url, call>>

(* DropSender that keeps the sender alive. *)
DropSenderForget ==
    /\ joinerPc = "joined"
    /\ joinerPc' = "dropped"
    /\ UNCHANGED <<proxies, workers, timeout, mainPc, handles, unit, permits,
                   senders, chan, rxClosed, delivered, eos>>
    /\ UNCHANGED <<client, format, url, call>>

(* drop(sender) *)
DropSender ==
    /\ joinerPc = "joined"
    /\ joinerPc' = "dropped"
    /\ senders' = senders - 1
    /\ UNCHANGED <<proxies, workers, timeout, mainPc, handles, unit, permits,
                   chan, rxClosed, delivered, eos>>
    /\ UNCHANGED <<client, format, url, call>>

----------------------------------------------------------------------------
(* The consumer of the receiver *)

(* Recv that hands out the newest buffered outcome. *)
RecvNewest ==
    /\ mainPc = "returned"
    /\ ~eos
    /\ chan /= <<>>
    /\ delivered' = Append(delivered, chan[Len(chan)])
    /\ chan' = SubSeq(chan, 1, Len(chan) - 1)
    /\ UNCHANGED <<proxies, workers, timeout, mainPc, handles, unit, permits,
                   senders, joinerPc, rxClosed, eos>>
    /\ UNCHANGED <<client, format, url, call>>

(* recv() returns Some(outcome): the oldest buffered outcome. *)
Recv ==
    /\ mainPc = "returned"
    /\ ~eos
    /\ chan /= <<>>
    /\ delivered' = Append(delivered, Head(chan))
    /\ chan' = Tail(chan)
    /\ UNCHANGED <<proxies, workers, timeout, mainPc, handles, unit, permits,
                   senders, joinerPc, rxClosed, eos>>
    /\ UNCHANGED <<client, format, url, call>>

(* recv() returns None: the buffer is empty and no sender can send any more. *)
RecvNone ==
    /\ mainPc = "returned"
    /\ ~eos
    /\ chan = <<>>
    /\ senders = 0 \/ rxClosed
    /\ eos' = TRUE
    /\ UNCHANGED <<proxies, workers, timeout, mainPc, handles, unit, permits,
                   senders, joinerPc, chan, rxClosed, delivered>>
    /\ UNCHANGED <<client, format, url, call>>

(* App::exit: proxy_test_recv.close() *)
Cancel ==
    /\ mainPc = "returned"
    /\ ~rxClosed
    /\ rxClosed' = TRUE
    /\ UNCHANGED <<proxies, workers, timeout, mainPc, handles, unit, permits,
                   senders, joinerPc, chan, delivered, eos>>
    /\ UNCHANGED <<client, format, url, call>>

----------------------------------------------------------------------------
(* The caller of the library: main of src/src/bin/proxytester.rs and the   *)
(* library's tests. It sets options, builds the engine, loads files and    *)
(* then either has nothing to test or calls run.                           *)

(* Before build there is no engine, and before run no run. *)
NoEngine ==
    /\ format = "-" /\ url = NoUrl /\ proxies = << >> /\ workers = 0 /\ timeout = 0

NoRun ==
    /\ mainPc = "idle" /\ handles = << >> /\ unit = << >> /\ permits = 0
    /\ senders = 0 /\ joinerPc = "unspawned" /\ chan = << >> /\ rxClosed = FALSE
    /\ delivered = << >> /\ eos = FALSE

AppInit ==
    /\ opts \in {OptionsNew, builder, OptionsDefault}
    /\ appPc = "options"
    /\ linesLoaded = 0
    /\ report = "-"
    /\ requested = opts
    /\ app = NoApp
    /\ other = NoOther
    /\ NoEngine
    /\ NoRun
    /\ call = NoCall

set_format(f) ==
    /\ appPc = "options"
    /\ opts' = [opts EXCEPT !.format = Some(f)]
    /\ requested' = [requested EXCEPT !.format = Some(f)]
    /\ UNCHANGED <<appPc, linesLoaded, report, format, url, proxies, workers, timeout, engine, call>>
    /\ UNCHANGED <<app, other>>

(* set_workers that takes a limit of 0 for 1. *)
set_workersAtLeastOne(w) ==
    /\ appPc = "options"
    /\ opts' = [opts EXCEPT !.workers = Some(IF w = 0 THEN 1 ELSE w)]
    /\ requested' = [requested EXCEPT !.workers = Some(w)]
    /\ UNCHANGED <<appPc, linesLoaded, report, format, url, proxies, workers, timeout, engine, call>>
    /\ UNCHANGED <<app, other>>

(* set_workers that keeps a limit that is already set. *)
set_workersIfUnset(w) ==
    /\ appPc = "options"
    /\ opts' = IF opts.workers = None THEN [opts EXCEPT !.workers = Some(w)] ELSE opts
    /\ requested' = [requested EXCEPT !.workers = Some(w)]
    /\ UNCHANGED <<appPc, linesLoaded, report, format, url, proxies, workers, timeout, engine, call>>
    /\ UNCHANGED <<app, other>>

set_workers(w) ==
    /\ appPc = "options"
    /\ opts' = [opts EXCEPT !.workers = Some(w)]
    /\ requested' = [requested EXCEPT !.workers = Some(w)]
    /\ UNCHANGED <<appPc, linesLoaded, report, format, url, proxies, workers, timeout, engine, call>>
    /\ UNCHANGED <<app, other>>

set_timeout(t) ==
    /\ appPc = "options"
    /\ opts' = [opts EXCEPT !.timeout = Some(t)]
    /\ requested' = [requested EXCEPT !.timeout = Some(t)]
    /\ UNCHANGED <<appPc, linesLoaded, report, format, url, proxies, workers, timeout, engine, call>>
    /\ UNCHANGED <<app, other>>

set_url(x) ==
    /\ appPc = "options"
    /\ opts' = [opts EXCEPT !.url = Some(x)]
    /\ requested' = [requested EXCEPT !.url = Some(x)]
    /\ UNCHANGED <<appPc, linesLoaded, report, format, url, proxies, workers, timeout, engine, call>>
    /\ UNCHANGED <<app, other>>

(* The message of the first expect() of build that meets a None, in the    *)
(* order of the struct's fields; "-" when every option is set.             *)
Missing(o) ==
    IF o.format = None THEN "Format is required"
    ELSE IF o.workers = None THEN "Workers is required"
    ELSE IF o.timeout = None THEN "Timeout is required"
    ELSE IF o.url = None THEN "URL is required"
    ELSE "-"

(* build that falls back to the default URL when none is set. *)
buildWithDefaultUrl ==
    /\ appPc = "options"
    /\ IF opts.format = None \/ opts.workers = None \/ opts.timeout = None
       THEN /\ appPc' = "panicked"
            /\ report' = Missing(opts)
            /\ UNCHANGED <<format, url, proxies, workers, timeout>>
       ELSE /\ appPc' = "built"
            /\ format' = opts.format[1]
            /\ workers' = opts.workers[1]
            /\ timeout' = opts.timeout[1]
            /\ url' = IF opts.url = None THEN Url("https", "google.com") ELSE opts.url[1]
            /\ proxies' = << >>
            /\ UNCHANGED report
    /\ UNCHANGED <<opts, linesLoaded, engine, call>>
    /\ UNCHANGED <<requested, app, other>>

(* ProxyTesterOptions::build: panics on the first option that is not set,  *)
(* else constructs the engine with an empty proxy list.                    *)
build ==
    /\ appPc = "options"
    /\ IF Missing(opts) /= "-"
       THEN /\ appPc' = "panicked"
            /\ report' = Missing(opts)
            /\ UNCHANGED <<format, url, proxies, workers, timeout>>
       ELSE /\ appPc' = "built"
            /\ format' = opts.format[1]
            /\ workers' = opts.workers[1]
            /\ timeout' = opts.timeout[1]
            /\ url' = opts.url[1]
            /\ proxies' = << >>
            /\ UNCHANGED report
    /\ UNCHANGED <<opts, linesLoaded, engine, call>>
    /\ UNCHANGED <<requested, app, other>>

(* The first line of the file that from_str rejects, 0 when there is none. *)
FirstBad(fmt, lines) ==
    IF \A i \in 1..Len(lines) : from_str(fmt, lines[i]).ok THEN 0
    ELSE CHOOSE i \in 1..Len(lines) :
            /\ ~from_str(fmt, lines[i]).ok
            /\ \A j \in 1..(i - 1) : from_str(fmt, lines[j]).ok

(* The lines that come before the stop of a load: the rejected line bad,   *)
(* or, with no rejected line, the failed read that follows the lines.      *)
Before(lines, bad) == IF bad = 0 THEN Len(lines) ELSE bad - 1

(* The records of the first n lines. *)
Parsed(fmt, lines, n) == [i \in 1..n |-> from_str(fmt, lines[i]).value[1]]

(* load_from_file that assigns the file's records instead of appending them. *)
load_from_fileReplacing(file) ==
    /\ appPc = "built"
    /\ linesLoaded + Len(file.lines) <= MaxLoaded
    /\ IF ~file.exists
       THEN /\ appPc' = "panicked"
            /\ report' = "NotFound"
            /\ UNCHANGED <<proxies, linesLoaded>>
       ELSE LET bad == FirstBad(format, file.lines) IN
            IF bad = 0 /\ file.fails = "-"
            THEN /\ proxies' = Parsed(format, file.lines, Len(file.lines))
                 /\ linesLoaded' = linesLoaded + Len(file.lines)
                 /\ UNCHANGED <<appPc, report>>
            ELSE /\ proxies' = Parsed(format, file.lines, Before(file.lines, bad))
                 /\ appPc' = "panicked"
                 /\ report' = IF bad = 0 THEN file.fails
                              ELSE from_str(format, file.lines[bad]).error
                 /\ UNCHANGED linesLoaded
    /\ UNCHANGED <<opts, format, url, workers, timeout, engine, call>>
    /\ UNCHANGED <<requested, app, other>>

(* ProxyTester::load_from_file. File::open(path).unwrap() panics when the  *)
(* file cannot be opened. extend() pulls the lines one by one through the  *)
(* map: each record is pushed as it is parsed; line.unwrap() panics on a   *)
(* read that fails and the unwrap() of from_str on the first rejected      *)
(* line, either out of load_from_file, whose only return is Ok(()).        *)
load_from_file(file) ==
    /\ appPc = "built"
    /\ linesLoaded + Len(file.lines) <= MaxLoaded
    /\ IF ~file.exists
       THEN /\ appPc' = "panicked"
            /\ report' = "NotFound"
            /\ UNCHANGED <<proxies, linesLoaded>>
       ELSE LET bad == FirstBad(format, file.lines) IN
            IF bad = 0 /\ file.fails = "-"
            THEN /\ proxies' = proxies \o Parsed(format, file.lines, Len(file.lines))
                 /\ linesLoaded' = linesLoaded + Len(file.lines)
                 /\ UNCHANGED <<appPc, report>>
            ELSE /\ proxies' = proxies \o Parsed(format, file.lines, Before(file.lines, bad))
                 /\ appPc' = "panicked"
                 /\ report' = IF bad = 0 THEN file.fails
                              ELSE from_str(format, file.lines[bad]).error
                 /\ UNCHANGED linesLoaded
    /\ UNCHANGED <<opts, format, url, workers, timeout, engine, call>>
    /\ UNCHANGED <<requested, app, other>>

(* load_from_file after run that also starts a unit for each new record. *)
load_from_fileJoiningRun(file) ==
    /\ appPc = "run"
    /\ mainPc = "returned"
    /\ linesLoaded + Len(file.lines) <= MaxLoaded
    /\ IF ~file.exists
       THEN /\ appPc' = "panicked"
            /\ report' = "NotFound"
            /\ UNCHANGED <<proxies, linesLoaded>>
       ELSE LET bad == FirstBad(format, file.lines) IN
            IF bad = 0 /\ file.fails = "-"
            THEN /\ proxies' = proxies \o Parsed(format, file.lines, Len(file.lines))
                 /\ linesLoaded' = linesLoaded + Len(file.lines)
                 /\ UNCHANGED <<appPc, report>>
            ELSE /\ proxies' = proxies \o Parsed(format, file.lines, Before(file.lines, bad))
                 /\ appPc' = "panicked"
                 /\ report' = IF bad = 0 THEN file.fails
                              ELSE from_str(format, file.lines[bad]).error
                 /\ UNCHANGED linesLoaded
    /\ unit' = unit \o [i \in 1..(Len(proxies') - Len(proxies)) |->
                           [NewUnit(proxies'[Len(proxies) + i]) EXCEPT !.pc = "waiting"]]
    /\ UNCHANGED <<opts, format, url, workers, timeout, call>>
    /\ UNCHANGED <<mainPc, handles, permits, senders, joinerPc, chan, rxClosed,
                   delivered, eos>>
    /\ UNCHANGED <<requested, app, other>>

(* ProxyTester::load_from_file called once run has returned: run holds the *)
(* engine by &mut until then. The records are appended to the engine's     *)
(* list; the run went through a clone of the list.                         *)
load_from_fileAfterRun(file) ==
    /\ appPc = "run"
    /\ mainPc = "returned"
    /\ linesLoaded + Len(file.lines) <= MaxLoaded
    /\ IF ~file.exists
       THEN /\ appPc' = "panicked"
            /\ report' = "NotFound"
            /\ UNCHANGED <<proxies, linesLoaded>>
       ELSE LET bad == FirstBad(format, file.lines) IN
            IF bad = 0 /\ file.fails = "-"
            THEN /\ proxies' = proxies \o Parsed(format, file.lines, Len(file.lines))
                 /\ linesLoaded' = linesLoaded + Len(file.lines)
                 /\ UNCHANGED <<appPc, report>>
            ELSE /\ proxies' = proxies \o Parsed(format, file.lines, Before(file.lines, bad))
                 /\ appPc' = "panicked"
                 /\ report' = IF bad = 0 THEN file.fails
                              ELSE from_str(format, file.lines[bad]).error
                 /\ UNCHANGED linesLoaded
    /\ UNCHANGED <<opts, format, url, workers, timeout, engine, call>>
    /\ UNCHANGED <<requested, app, other>>

(* ProxyTester::len and ProxyTester::is_empty *)
len == Len(proxies)
is_empty == proxies = << >>

(* main: no proxies are loaded; it prints the notice and returns Ok(()). *)
NothingToTest ==
    /\ appPc = "built"
    /\ is_empty
    /\ report' = "No proxies loaded, you can't test nothing"
    /\ appPc' = "exit_ok"
    /\ UNCHANGED <<opts, linesLoaded, format, url, proxies, workers, timeout, engine, call>>
    /\ UNCHANGED <<requested, app, other>>

(* StartRun without the is_empty check before it. *)
StartRunUnchecked ==
    /\ appPc = "built"
    /\ appPc' = "run"
    /\ mainPc' = "loop"
    /\ handles' = << >>
    /\ unit' = [u \in 1..Len(proxies) |-> NewUnit(proxies[u])]
    /\ permits' = workers
    /\ senders' = 1
    /\ joinerPc' = "unspawned"
    /\ chan' = << >>
    /\ rxClosed' = FALSE
    /\ delivered' = << >>
    /\ eos' = FALSE
    /\ UNCHANGED <<opts, linesLoaded, report, format, url, proxies, workers, timeout, call>>
    /\ UNCHANGED <<requested, app, other>>

(* main: proxies are loaded; it calls run, which creates the semaphore and *)
(* the channel and is about to enter its loop over the proxies.            *)
StartRun ==
    /\ appPc = "built"
    /\ ~is_empty
    /\ appPc' = "run"
    /\ mainPc' = "loop"
    /\ handles' = << >>
    /\ unit' = [u \in 1..Len(proxies) |-> NewUnit(proxies[u])]
    /\ permits' = workers
    /\ senders' = 1
    /\ joinerPc' = "unspawned"
    /\ chan' = << >>
    /\ rxClosed' = FALSE
    /\ delivered' = << >>
    /\ eos' = FALSE
    /\ UNCHANGED <<opts, linesLoaded, report, format, url, proxies, workers, timeout, call>>
    /\ UNCHANGED <<requested, app, other>>

AppNext ==
    \/ \E f \in {HostPortUsernamePassword} : set_format(f)
    \/ \E w \in 0..MaxWorkers : set_workers(w)
    \/ \E t \in Timeouts : set_timeout(t)
    \/ \E x \in UrlPool : set_url(x)
    \/ build
    \/ \E file \in FilePool : load_from_file(file)
    \/ NothingToTest
    \/ StartRun

AppSpec == AppInit /\ [][AppNext]_vars

----------------------------------------------------------------------------
(* The probe applied on its own to what the network does, how long the     *)
(* answer takes and the timeout set on the transfer.                       *)
PerformCalls ==
    {c \in [fn : {"perform"}, url : CallUrls, net : Tunnelled, setup : 0..MaxSetup,
            latency : 0..MaxCallLatency, slack : 0..MaxSlack,
            timeout : {999} \cup {from_millis(m) : m \in 0..MaxCallTimeout},
            result : {NoResult}] : c.net \in BehavioursFor(c.url)}

(* Proxy::from_str applied to the line made of one to MaxParts fields. *)
ParseCalls ==
    {[fn |-> "from_str", parts |-> ps, line |-> Join(ps), done |-> FALSE, result |-> Err("-")] :
        ps \in SeqsUpTo(FieldPool, MaxParts) \ {<< >>}}

(* to_string applied to a record made by Proxy::new, whose username and    *)
(* password may be absent; origin is the line a record was parsed from.    *)
RenderCalls ==
    {[fn |-> "to_string", proxy |-> Proxy(<< "h" >>, n, u, p), origin |-> None,
      done |-> FALSE, result |-> Err("-")] :
        n \in {0, 80, U16_MAX}, u \in {None, Some(<< >>), Some(<< "u" >>)},
        p \in {None, Some(<< >>), Some(<< "p" >>)}}

CallInit ==
    /\ call \in PerformCalls \cup ParseCalls \cup RenderCalls
    /\ opts = OptionsNew
    /\ appPc = "options"
    /\ linesLoaded = 0
    /\ report = "-"
    /\ requested = opts
    /\ app = NoApp
    /\ other = NoOther
    /\ NoEngine
    /\ NoRun

PerformCall ==
    /\ call.fn = "perform"
    /\ call.result = NoResult
    /\ Returns(call.url, call.net, call.timeout)
    /\ call' = [call EXCEPT !.result = Perform(call.url, call.net, call.setup, call.latency,
                                              call.slack, call.timeout)]
    /\ UNCHANGED <<client, format, url, proxies, workers, timeout, engine>>

from_strCall ==
    /\ call.fn = "from_str"
    /\ ~call.done
    /\ call' = [call EXCEPT !.done = TRUE,
                            !.result = from_str(HostPortUsernamePassword, call.line)]
    /\ UNCHANGED <<client, format, url, proxies, workers, timeout, engine>>

(* The record a line was parsed to is rendered next. *)
RenderParsed ==
    /\ call.fn = "from_str"
    /\ call.done
    /\ call.result.ok
    /\ call' = [fn |-> "to_string", proxy |-> call.result.value[1],
                origin |-> Some(call.line), done |-> FALSE, result |-> Err("-")]
    /\ UNCHANGED <<client, format, url, proxies, workers, timeout, engine>>

to_stringCall ==
    /\ call.fn = "to_string"
    /\ ~call.done
    /\ call' = [call EXCEPT !.done = TRUE, !.result = to_string(call.proxy)]
    /\ UNCHANGED <<client, format, url, proxies, workers, timeout, engine>>

CallNext == PerformCall \/ from_strCall \/ RenderParsed \/ to_stringCall

CallSpec == CallInit /\ [][CallNext]_vars

----------------------------------------------------------------------------
MainStep == Spawn \/ SpawnJoiner \/ Return

UnitStep(u) ==
    \/ Acquire(u)
    \/ \E net \in NetBehaviours, latency \in 0..MaxLatency :
           ProbeComplete(u, net, 0, latency, 0)
    \/ SendOk(u)
    \/ SendErr(u)
    \/ DropPermit(u)
    \/ Exit(u)

JoinerStep == JoinAll \/ DropSender

Next ==
    \/ Spawn
    \/ SpawnJoiner
    \/ Return
    \/ \E u \in Units : Acquire(u)
    \/ \E u \in Units, net \in NetBehaviours, latency \in 0..MaxLatency :
           ProbeComplete(u, net, 0, latency, 0)
    \/ \E u \in Units : SendOk(u)
    \/ \E u \in Units : SendErr(u)
    \/ \E u \in Units : DropPermit(u)
    \/ \E u \in Units : Exit(u)
    \/ JoinAll
    \/ DropSender
    \/ Recv
    \/ RecvNone
    \/ Cancel

(* The runs with an http target whose timeout is none or one millisecond,  *)
(* their proxies named in the order in which they first appear. Next       *)
(* follows them with clocks that are exact: no time spent setting up the   *)
(* handle, and a limit that curl looks at on time.                         *)
RunInit ==
    /\ Init
    /\ url = HttpUrl
    /\ timeout \in TimeoutPool
    /\ proxies = << >> \/ proxies[1] = "p1"

Spec == RunInit /\ [][Next]_vars

(* The runs of RunInit whose transfers have a limit: every probe ends, by  *)
(* the proxy's answer or by the limit.                                     *)
LimitedInit == RunInit /\ Limit(timeout) > 0

(* The units that are spawned and have not ended. *)
LiveUnits == {u \in Units : unit[u].pc \notin ({"unspawned"} \cup Finished)}

(* A step of the engine: of the caller, of a live unit or of the joiner. *)
EngineStep == MainStep \/ (\E u \in LiveUnits : UnitStep(u)) \/ JoinerStep

(* The runtime keeps running the tasks that can make progress, and a probe *)
(* whose transfer returns does return. Nothing is assumed of the consumer. *)
EngineFairness == WF_vars(EngineStep)

(* A consumer that keeps draining: it receives whenever it can. *)
ConsumerFairness == WF_vars(Recv) /\ WF_vars(RecvNone)

LiveSpec == LimitedInit /\ [][Next]_vars /\ EngineFairness /\ ConsumerFairness

(* Runs from the start in which the engine keeps running; nothing is      *)
(* assumed of the consumer.                                                *)
FairSpec == LimitedInit /\ [][Next]_vars /\ EngineFairness

(* The caller up to its call of run, together with the runs from their    *)
(* start.                                                                  *)
BuildRunNext ==
    \/ \E f \in {HostPortUsernamePassword} : set_format(f)
    \/ \E w \in 0..MaxWorkers : set_workers(w)
    \/ \E t \in Timeouts : set_timeout(t)
    \/ \E x \in UrlPool : set_url(x)
    \/ build
    \/ \E file \in FilePool : load_from_file(file)
    \/ NothingToTest
    \/ appPc = "run" /\ Next

BuildRunSpec == (AppInit \/ RunInit) /\ [][BuildRunNext]_vars

(* Runs from the start whose caller loads more files once run has         *)
(* returned, followed for one permit and a timeout of one millisecond.     *)
LateLoadNext ==
    \/ Next
    \/ \E file \in FilePool : load_from_fileAfterRun(file)

LateLoadInit == RunInit /\ workers = 1 /\ timeout = from_millis(1)

LateLoadSpec == LateLoadInit /\ [][LateLoadNext]_vars

(* The caller calls run again once the first call has returned, while the *)
(* tasks of the first run may still be at work. The variables of engine    *)
(* are those of the run whose task takes the next step, and other keeps    *)
(* the run that is not in turn, with its number.                           *)
Kept(n) ==
    [run |-> n, mainPc |-> mainPc, handles |-> handles, unit |-> unit,
     permits |-> permits, senders |-> senders, joinerPc |-> joinerPc,
     chan |-> chan, rxClosed |-> rxClosed, delivered |-> delivered, eos |-> eos]

(* A second call of run that goes on with the permits the first has left. *)
RunAgainSharedGate ==
    /\ appPc = "run"
    /\ mainPc = "returned"
    /\ other = NoOther
    /\ other' = Kept(1)
    /\ mainPc' = "loop"
    /\ handles' = << >>
    /\ unit' = [u \in 1..Len(proxies) |-> NewUnit(proxies[u])]
    /\ permits' = permits
    /\ senders' = 1
    /\ joinerPc' = "unspawned"
    /\ chan' = << >>
    /\ rxClosed' = FALSE
    /\ delivered' = << >>
    /\ eos' = FALSE
    /\ UNCHANGED <<opts, appPc, linesLoaded, report, requested, app>>
    /\ UNCHANGED <<format, url, proxies, workers, timeout, call>>

(* ProxyTester::run called a second time on the engine: it creates a new   *)
(* semaphore of self.workers permits and a new channel, and is about to    *)
(* enter its loop over the proxies.                                        *)
RunAgain ==
    /\ appPc = "run"
    /\ mainPc = "returned"
    /\ other = NoOther
    /\ other' = Kept(1)
    /\ mainPc' = "loop"
    /\ handles' = << >>
    /\ unit' = [u \in 1..Len(proxies) |-> NewUnit(proxies[u])]
    /\ permits' = workers
    /\ senders' = 1
    /\ joinerPc' = "unspawned"
    /\ chan' = << >>
    /\ rxClosed' = FALSE
    /\ delivered' = << >>
    /\ eos' = FALSE
    /\ UNCHANGED <<opts, appPc, linesLoaded, report, requested, app>>
    /\ UNCHANGED <<format, url, proxies, workers, timeout, call>>

(* The runtime turns to a task of the other run. *)
Turn ==
    /\ other /= NoOther
    /\ other' = Kept(3 - other.run)
    /\ mainPc' = other.mainPc
    /\ handles' = other.handles
    /\ unit' = other.unit
    /\ permits' = other.permits
    /\ senders' = other.senders
    /\ joinerPc' = other.joinerPc
    /\ chan' = other.chan
    /\ rxClosed' = other.rxClosed
    /\ delivered' = other.delivered
    /\ eos' = other.eos
    /\ UNCHANGED <<opts, appPc, linesLoaded, report, requested, app>>
    /\ UNCHANGED <<format, url, proxies, workers, timeout, call>>

TwoRunsNext ==
    \/ Spawn
    \/ SpawnJoiner
    \/ Return
    \/ \E u \in Units : Acquire(u)
    \/ \E u \in Units, net \in Prompt : ProbeComplete(u, net, 0, 0, 0)
    \/ \E u \in Units : SendOk(u)
    \/ \E u \in Units : SendErr(u)
    \/ \E u \in Units : DropPermit(u)
    \/ \E u \in Units : Exit(u)
    \/ JoinAll
    \/ DropSender
    \/ Recv
    \/ RecvNone
    \/ Cancel
    \/ RunAgain
    \/ Turn

(* Two runs of one engine, followed for one permit, a timeout of 1 ms,     *)
(* answers of the network that come at once and up to MaxRunProxies        *)
(* proxies.                                                                *)
TwoRunsInit ==
    RunInit /\ workers = 1 /\ timeout = from_millis(1) /\ Len(proxies) <= MaxRunProxies

TwoRunsSpec == TwoRunsInit /\ [][TwoRunsNext]_vars

(* Runs from the start together with runs whose buffer is full. *)
SpecFull == (RunInit \/ InitBulk) /\ [][Next]_vars

FairSpecFull == (LimitedInit \/ InitBulk) /\ [][Next]_vars /\ EngineFairness

(* Runs of one permit and up to two proxies, with any target and any       *)
(* timeout, followed with everything a probe can meet.                     *)
ProbeInit == Init /\ workers = 1 /\ Len(proxies) <= 2

ProbeNext ==
    \/ Spawn
    \/ SpawnJoiner
    \/ Return
    \/ \E u \in Units : Acquire(u)
    \/ \E u \in Units, net \in BehavioursFor(url), setup \in 0..MaxSetup,
          latency \in 0..MaxLatency, slack \in 0..MaxSlack :
           ProbeComplete(u, net, setup, latency, slack)
    \/ \E u \in Units : SendOk(u)
    \/ \E u \in Units : SendErr(u)
    \/ \E u \in Units : DropPermit(u)
    \/ \E u \in Units : Exit(u)
    \/ JoinAll
    \/ DropSender
    \/ Recv
    \/ RecvNone
    \/ Cancel

ProbeSpec == ProbeInit /\ [][ProbeNext]_vars

(* Runs of at least CHANNEL_SIZE + 2 proxies whose buffer is full, followed *)
(* with probes that are answered or refused at once.                       *)
SurplusNext ==
    \/ Spawn
    \/ SpawnJoiner
    \/ Return
    \/ \E u \in Units : Acquire(u)
    \/ \E u \in Units, net \in Prompt : ProbeComplete(u, net, 0, 0, 0)
    \/ \E u \in Units : SendOk(u)
    \/ \E u \in Units : SendErr(u)
    \/ \E u \in Units : DropPermit(u)
    \/ \E u \in Units : Exit(u)
    \/ JoinAll
    \/ DropSender
    \/ Recv
    \/ RecvNone
    \/ Cancel

SurplusSpec == InitSurplus /\ [][SurplusNext]_vars

(* Only the caller of run is kept running: the units, the joiner and the   *)
(* consumer may stall for ever.                                            *)
CallerFairness == WF_vars(MainStep)

CallerSpec == SpecFull /\ CallerFairness

----------------------------------------------------------------------------
(* The display of src/src/bin/proxytester.rs: the App that main constructs *)
(* over the receiver run() gave it. Its results_buffer is delivered, its   *)
(* proxy_test_recv is the receiving end of chan, closed when rxClosed.     *)

(* usize arithmetic. selected_proxy and the lengths are 64-bit unsigned;   *)
(* a usize above the small numbers of the model is written as the negative *)
(* number with the same bits (usize::MAX is -1), so that a wrapping        *)
(* subtraction is the subtraction of integers. UGe is >= on the unsigned   *)
(* reading.                                                                *)
UGe(a, b) == IF (a < 0) = (b < 0) THEN a >= b ELSE a < 0

(* The key codes the display tells apart, and one it does not handle. *)
Keys == {"Esc", "q", "Down", "k", "Up", "i", "BackTab"}

(* What handling a key does: the App afterwards, and whether the receiver  *)
(* was closed.                                                             *)
Handled(a, closed) == [app |-> a, close |-> closed]

(* A panic in the display: attempt to subtract with overflow. *)
Panicked(a) == [a EXCEPT !.pc = "panicked"]

(* exit that leaves the receiver open. *)
exitKeepOpen(a) == Handled([a EXCEPT !.exit = TRUE], FALSE)

(* App::exit *)
exit(a) == Handled([a EXCEPT !.exit = TRUE], TRUE)

(* handle_key_event that stops at the first and the last row. *)
handle_key_eventClamped(a, length, key) ==
    CASE key \in {"Esc", "q"} -> exit(a)
      [] key \in {"Down", "k"} ->
            IF length = 0 /\ a.overflow_checks THEN Handled(Panicked(a), FALSE)
            ELSE Handled([a EXCEPT !.selected_proxy =
                            IF UGe(@, length - 1) THEN @ ELSE @ + 1], FALSE)
      [] key \in {"Up", "i"} ->
            Handled([a EXCEPT !.selected_proxy = IF @ = 0 THEN 0 ELSE @ - 1], FALSE)
      [] OTHER -> Handled(a, FALSE)

(* handle_key_event that takes every other key for Down. *)
handle_key_eventOtherIsDown(a, length, key) ==
    CASE key \in {"Esc", "q"} -> exit(a)
      [] key \in {"Up", "i"} ->
            IF a.selected_proxy = 0
            THEN IF length = 0 /\ a.overflow_checks THEN Handled(Panicked(a), FALSE)
                 ELSE Handled([a EXCEPT !.selected_proxy = length - 1], FALSE)
            ELSE Handled([a EXCEPT !.selected_proxy = @ - 1], FALSE)
      [] OTHER ->
            IF length = 0 /\ a.overflow_checks THEN Handled(Panicked(a), FALSE)
            ELSE Handled([a EXCEPT !.selected_proxy =
                            IF UGe(@, length - 1) THEN 0 ELSE @ + 1], FALSE)

(* App::handle_key_event, for a results_buffer of the given length.        *)
(* results_buffer.len() - 1 on an empty buffer overflows: the build with   *)
(* overflow checks panics, the build without them wraps to usize::MAX.     *)
handle_key_event(a, length, key) ==
    CASE key \in {"Esc", "q"} -> exit(a)
      [] key \in {"Down", "k"} ->
            IF length = 0 /\ a.overflow_checks THEN Handled(Panicked(a), FALSE)
            ELSE Handled([a EXCEPT !.selected_proxy =
                            IF UGe(@, length - 1) THEN 0 ELSE @ + 1], FALSE)
      [] key \in {"Up", "i"} ->
            IF a.selected_proxy = 0
            THEN IF length = 0 /\ a.overflow_checks THEN Handled(Panicked(a), FALSE)
                 ELSE Handled([a EXCEPT !.selected_proxy = length - 1], FALSE)
            ELSE Handled([a EXCEPT !.selected_proxy = @ - 1], FALSE)
      [] OTHER -> Handled(a, FALSE)

(* main: run() has returned the receiver; the App is constructed with the  *)
(* first row selected and the exit flag down. The build fixes whether      *)
(* arithmetic overflow is checked.                                         *)
AppNew ==
    /\ mainPc = "returned"
    /\ app.pc = "none"
    /\ \E checks \in BOOLEAN :
          app' = [pc |-> "loop", proxy_count |-> len, selected_proxy |-> 0,
                  exit |-> FALSE, overflow_checks |-> checks]
    /\ UNCHANGED <<opts, appPc, linesLoaded, report, requested, other>>
    /\ UNCHANGED <<format, url, proxies, workers, timeout, engine, call>>

(* The selected rows the model follows: the rows of the buffer and the     *)
(* MaxStray numbers next to 0 and to usize::MAX.                           *)
Followed(selected) ==
    \/ selected \in (0 - MaxStray)..MaxStray
    \/ selected \in 0..Len(proxies)

(* App::run, an iteration of the loop whose select! takes the event        *)
(* branch: handle_events reads a key press and hands it on.                *)
KeyPress(key) ==
    /\ app.pc = "loop"
    /\ ~app.exit
    /\ LET handled == handle_key_event(app, Len(delivered), key) IN
          /\ Followed(handled.app.selected_proxy)
          /\ app' = handled.app
          /\ rxClosed' = (rxClosed \/ handled.close)
    /\ UNCHANGED <<opts, appPc, linesLoaded, report, requested, other>>
    /\ UNCHANGED <<format, url, proxies, workers, timeout, call>>
    /\ UNCHANGED <<mainPc, handles, unit, permits, senders, joinerPc, chan,
                   delivered, eos>>

(* App::run, an iteration whose select! takes the recv() branch: the       *)
(* outcome is pushed to results_buffer.                                    *)
AppRecv ==
    /\ app.pc = "loop"
    /\ ~app.exit
    /\ Recv

(* App::run: the loop condition fails once exit is set; run returns. *)
AppReturn ==
    /\ app.pc = "loop"
    /\ app.exit
    /\ app' = [app EXCEPT !.pc = "done"]
    /\ UNCHANGED <<opts, appPc, linesLoaded, report, requested, other>>
    /\ UNCHANGED <<format, url, proxies, workers, timeout, engine, call>>

(* The process lives until main returns or panics; the tasks of the run   *)
(* end with it.                                                            *)
Running == app.pc \notin {"done", "panicked"}

(* A main that calls run without looking whether a proxy is loaded. *)
UiInitUnchecked == RunInit /\ workers <= 1 /\ timeout = from_millis(1)

(* main has loaded at least one proxy when it calls run. The display is   *)
(* followed over runs with at most one permit and a timeout of 1 ms.       *)
UiInit == RunInit /\ ~is_empty /\ workers <= 1 /\ timeout = from_millis(1)

UiNext ==
    \/ Running /\ Spawn
    \/ Running /\ SpawnJoiner
    \/ Running /\ Return
    \/ Running /\ \E u \in Units : Acquire(u)
    \/ Running /\ \E u \in Units, net \in NetBehaviours, latency \in 0..MaxLatency :
                     ProbeComplete(u, net, 0, latency, 0)
    \/ Running /\ \E u \in Units : SendOk(u)
    \/ Running /\ \E u \in Units : SendErr(u)
    \/ Running /\ \E u \in Units : DropPermit(u)
    \/ Running /\ \E u \in Units : Exit(u)
    \/ Running /\ JoinAll
    \/ Running /\ DropSender
    \/ AppNew
    \/ \E key \in Keys : KeyPress(key)
    \/ AppRecv
    \/ AppReturn

UiSpec == UiInit /\ [][UiNext]_vars

----------------------------------------------------------------------------
(* Vocabulary of the properties *)

Count(p, s) == Cardinality({i \in 1..Len(s) : s[i].proxy = p})
Loaded(p) == Cardinality({i \in 1..Len(proxies) : proxies[i] = p})
AllFinished == \A u \in Units : unit[u].pc \in Finished
Holders == {u \in Units : unit[u].permit}
Outcomes == {chan[i].result : i \in 1..Len(chan)}
            \cup {delivered[i].result : i \in 1..Len(delivered)}
            \cup {unit[u].result : u \in {v \in Units : unit[v].pc = "sending"}}

----------------------------------------------------------------------------
(* C1: with a concurrency limit k >= 1, in every reachable state at most k *)
(* units have acquired a permit and not yet released it.                   *)
C1_AtMostKInFlight ==
    workers >= 1 => Cardinality(Holders) <= workers

(* A saturated gate: one permit, its holder probing, another unit waiting. *)
C1_Witness ==
    /\ workers = 1
    /\ \E u, v \in Units : unit[u].pc = "running" /\ unit[u].permit /\ unit[v].pc = "waiting"

(* C2: when the consumer has not cancelled, the stream has closed only     *)
(* after n outcomes were pushed, and the consumer that sees end-of-stream  *)
(* has received exactly n outcomes, one for each loaded proxy record.      *)
C2_ExactlyNWithoutCancel ==
    ~rxClosed =>
        /\ senders = 0 => Len(chan) + Len(delivered) = Len(proxies)
        /\ eos => /\ Len(delivered) = Len(proxies)
                  /\ \A p \in ProxyPool : Count(p, delivered) = Loaded(p)

(* End-of-stream after two outcomes of a two-proxy run that was not cancelled. *)
C2_Witness ==
    /\ eos /\ ~rxClosed
    /\ Len(proxies) = 2 /\ Len(delivered) = 2

(* C3 as stated: every delivered outcome carries a supplied proxy, and no  *)
(* two delivered outcomes carry the same proxy.                            *)
C3_Original ==
    /\ \A i \in 1..Len(delivered) : \E j \in 1..Len(proxies) : delivered[i].proxy = proxies[j]
    /\ \A i, j \in 1..Len(delivered) : i /= j => delivered[i].proxy /= delivered[j].proxy

(* C3 amended: every outcome pushed or delivered carries a supplied proxy, *)
(* and a proxy has at most as many outcomes as the loaded list has records *)
(* of it: one outcome per loaded record, cancelled or not.                 *)
C3_OnePerLoadedRecord ==
    /\ \A i \in 1..Len(delivered) : \E j \in 1..Len(proxies) : delivered[i].proxy = proxies[j]
    /\ \A p \in ProxyPool : Count(p, chan) + Count(p, delivered) <= Loaded(p)

(* The same proxy loaded twice, and both of its outcomes delivered. *)
C3_Witness ==
    /\ Len(proxies) = 2 /\ proxies[1] = proxies[2]
    /\ Len(delivered) = 2

(* C4: the stream is not closed, and an uncancelled consumer sees no       *)
(* end-of-stream, while a unit is unfinished; the original sender is       *)
(* dropped once, by the joiner, after the join of all units.               *)
C4_CloseAfterJoin ==
    /\ (senders = 0 \/ joinerPc \in {"joined", "dropped"} \/ (eos /\ ~rxClosed)) => AllFinished
    /\ senders = Cardinality(LiveUnits) + (IF joinerPc = "dropped" THEN 0 ELSE 1)

(* The stream closed by the joiner after two units finished. *)
C4_Witness ==
    /\ joinerPc = "dropped" /\ senders = 0
    /\ Len(proxies) = 2 /\ AllFinished

(* C5: with k >= 1, probes that terminate and a consumer that keeps         *)
(* draining, eventually every unit has finished, the stream is closed and  *)
(* the consumer has observed end-of-stream.                                *)
C5_EventuallyEndOfStream ==
    (workers >= 1) => <>(AllFinished /\ joinerPc = "dropped" /\ senders = 0 /\ eos)

(* An uncancelled two-proxy run that has ended in end-of-stream. *)
C5_Witness ==
    /\ workers >= 1 /\ Len(proxies) = 2 /\ ~rxClosed
    /\ AllFinished /\ senders = 0 /\ eos

(* C6: available permits plus permits held by units equal k in every       *)
(* state; a unit that has finished, by either path, holds none; once all   *)
(* units have finished all k permits are available.                        *)
C6_PermitsConserved ==
    /\ permits + Cardinality(Holders) = workers
    /\ \A u \in Units : unit[u].pc \in Finished => ~unit[u].permit
    /\ AllFinished => permits = workers

(* All units finished, one normally and one by the panic of a failed send. *)
C6_Witness ==
    /\ workers >= 1 /\ AllFinished /\ permits = workers
    /\ \E u, v \in Units : unit[u].pc = "done" /\ unit[v].pc = "panicked"

(* C7 as stated: a probe whose network call takes longer than the         *)
(* configured timeout is aborted: its outcome is a failure, never a        *)
(* success.                                                                *)
C7_Original ==
    (/\ call.fn = "perform" /\ call.result /= NoResult
     /\ call.net.connects
     /\ from_millis(call.latency) > call.timeout)
        => call.result.kind = "CurlError"

(* C8: a probe failure aborts nothing: no unit panics while the receiver   *)
(* is open, a failed unit goes on to push like a successful one, and a run *)
(* in which every probe fails ends with n outcomes and end-of-stream.      *)
IsFailure(r) == r.kind = "CurlError"

C8_FailureIsData ==
    ~rxClosed =>
        /\ \A u \in Units : unit[u].pc \notin {"panicking", "unwinding", "panicked"}
        /\ (AllFinished /\ \A r \in Outcomes : IsFailure(r))
               => Len(chan) + Len(delivered) = Len(proxies)

(* Two proxies, both probes failed, both outcomes delivered, then end-of-stream. *)
C8_Witness ==
    /\ eos /\ ~rxClosed /\ Len(proxies) = 2 /\ Len(delivered) = 2
    /\ \A i \in 1..Len(delivered) : IsFailure(delivered[i].result)

(* C9: once the receiver is closed no step pushes into the buffer (it only *)
(* shrinks, by the consumer draining it); a unit that leaves its send      *)
(* discards its outcome and unwinds still holding its permit; and every    *)
(* permit a unit lets go of is back in the gate.                           *)
C9_NoPushAfterCancel ==
    [][rxClosed =>
          /\ chan' = chan \/ (chan /= <<>> /\ chan' = Tail(chan))
          /\ \A u \in Units :
                (unit[u].pc = "sending" /\ unit'[u].pc /= "sending")
                    => unit'[u].pc = "panicking" /\ unit'[u].permit
          /\ \A u \in Units :
                (unit[u].permit /\ ~unit'[u].permit) => permits' = permits + 1
          /\ permits' + Cardinality(Holders') = workers]_vars

(* The receiver was closed on a full buffer: the unit that was suspended   *)
(* on its push has panicked, the buffer holds what it held, and all        *)
(* permits are back.                                                       *)
C9_Witness ==
    /\ rxClosed /\ Len(chan) = CHANNEL_SIZE
    /\ \E u \in Units : unit[u].pc = "panicked"
    /\ AllFinished /\ permits = workers

Pushed == {u \in Units : unit[u].pc \in {"sent", "exiting", "done"}}

C11_BoundedNoDrop ==
    /\ [](Len(chan) <= CHANNEL_SIZE)
    /\ [](~rxClosed => Len(chan) + Len(delivered) = Cardinality(Pushed))
    /\ [][(Len(chan) = CHANNEL_SIZE /\ ~rxClosed)
             => \A u \in Units : unit[u].pc = "sending" => unit'[u].pc = "sending"]_vars

(* A unit that was suspended on the full buffer has pushed after the       *)
(* consumer took one outcome: the buffer is full again, nothing is lost.   *)
C11_Witness ==
    /\ ~rxClosed /\ Len(chan) = CHANNEL_SIZE /\ Len(delivered) = 1
    /\ \E u \in Units : u > CHANNEL_SIZE /\ unit[u].pc = "sent"

(* C12: outcomes reach the consumer in the order in which the units pushed *)
(* them: the outcomes received followed by the outcomes buffered form the  *)
(* push order, which a step only extends at its end, by the one outcome a  *)
(* unit pushes; a receive moves the oldest buffered outcome and so leaves  *)
(* that order as it is. Submission order plays no part.                    *)
PushOrder == delivered \o chan

C12_CompletionOrder ==
    [][/\ Len(PushOrder') \in {Len(PushOrder), Len(PushOrder) + 1}
       /\ SubSeq(PushOrder', 1, Len(PushOrder)) = PushOrder
       /\ \A u \in Units :
             (unit[u].pc = "sending" /\ unit'[u].pc = "sent")
                 => PushOrder' = Append(PushOrder, ProxyTest(unit[u].proxy, unit[u].result))]_vars

(* Two permits, two different proxies: the outcome of the proxy submitted  *)
(* second was delivered first.                                             *)
C12_Witness ==
    /\ workers >= 2 /\ Len(proxies) = 2 /\ proxies[1] /= proxies[2]
    /\ Len(delivered) = 2
    /\ delivered[1].proxy = proxies[2] /\ delivered[2].proxy = proxies[1]

(* C13: run returns the receiver after spawning the units whatever the     *)
(* units, the gate, the buffer and the consumer do: until it has returned  *)
(* the caller always has a step to take, and it does return even when no   *)
(* other task ever runs.                                                   *)
C13_ReturnsWithoutWaiting ==
    /\ [](mainPc /= "returned" => ENABLED MainStep)
    /\ <>(mainPc = "returned")

(* run has returned from a gate without permits: both units are spawned    *)
(* and wait, no probe has started, nothing was pushed or received.         *)
C13_Witness ==
    /\ mainPc = "returned" /\ workers = 0 /\ Len(proxies) = 2
    /\ \A u \in Units : unit[u].pc = "waiting"
    /\ chan = <<>> /\ delivered = <<>>

(* The transitions of a unit's position: spawned, permit acquired, probe   *)
(* ended (with a success or a failure as its result), send returned Ok or  *)
(* Err, permit given back, end of the task.                                *)
Lifecycle ==
    { <<"unspawned", "waiting">>, <<"waiting", "running">>, <<"running", "sending">>,
      <<"sending", "sent">>, <<"sending", "panicking">>,
      <<"sent", "exiting">>, <<"panicking", "unwinding">>,
      <<"exiting", "done">>, <<"unwinding", "panicked">> }

(* One step of the units: each unit stays or moves along Lifecycle; the    *)
(* probe's end records a success or a failure; a send that returns Ok      *)
(* appends that unit's one outcome, and nothing else extends the outcomes. *)
LifecycleStep ==
    /\ \A u \in Units :
          /\ unit'[u].pc = unit[u].pc \/ <<unit[u].pc, unit'[u].pc>> \in Lifecycle
          /\ (unit[u].pc = "running" /\ unit'[u].pc = "sending")
                 => unit'[u].result.kind \in {"Ok", "CurlError"}
          /\ (unit[u].pc = "sending" /\ unit'[u].pc = "sent")
                 => PushOrder' = Append(PushOrder, ProxyTest(unit[u].proxy, unit[u].result))
    /\ PushOrder' /= PushOrder
          => Cardinality({u \in Units : unit[u].pc = "sending" /\ unit'[u].pc = "sent"}) = 1

(* C14 as stated: every unit moves along the lifecycle only, and a unit    *)
(* that has ended has pushed exactly one outcome.                          *)
C14_Original ==
    /\ [][LifecycleStep]_vars
    /\ [](\A u \in Units : unit[u].pc \in Finished => u \in Pushed)
    /\ [](Len(PushOrder) = Cardinality(Pushed))

(* C14 amended: every unit moves along the lifecycle only (one acquire,    *)
(* one probe, one send, no way back); a unit pushes at most one outcome,   *)
(* and a unit that has ended has pushed exactly one unless the consumer    *)
(* had closed the receiver, in which case its send failed and it pushed    *)
(* none.                                                                   *)
C14_OneAttemptAtMostOnePush ==
    /\ [][LifecycleStep]_vars
    /\ [](\A u \in Units : (unit[u].pc \in Finished /\ ~rxClosed) => u \in Pushed)
    /\ [](\A u \in Units : unit[u].pc \in {"panicking", "unwinding", "panicked"} => rxClosed)
    /\ [](Len(PushOrder) = Cardinality(Pushed))

(* A cancelled run of two proxies: one unit pushed its outcome, which was  *)
(* received, the other one's send failed; both have ended.                 *)
C14_Witness ==
    /\ rxClosed /\ Len(proxies) = 2 /\ AllFinished
    /\ Cardinality(Pushed) = 1 /\ Len(delivered) = 1 /\ chan = <<>>

(* The options that are not set, and the message build gives for each. *)
Unset(o) == {f \in {"format", "workers", "timeout", "url"} : o[f] = None}

Required ==
    [format |-> "Format is required", workers |-> "Workers is required",
     timeout |-> "Timeout is required", url |-> "URL is required"]

(* C15: build fails exactly when the format, the concurrency limit, the    *)
(* timeout or the URL is not set, with a message naming an option that is  *)
(* not set; it fails before any engine exists, so nothing was or will be   *)
(* loaded or run; and with all four set it constructs the engine with the  *)
(* values set and no proxies.                                              *)
C15_BuildRequiresAllOptions ==
    /\ [][(appPc = "options" /\ appPc' /= "options") =>
            IF Unset(opts) /= {}
            THEN /\ appPc' = "panicked"
                 /\ \E f \in Unset(opts) : report' = Required[f]
                 /\ NoEngine' /\ NoRun' /\ linesLoaded' = 0
            ELSE /\ appPc' = "built" /\ report' = "-"
                 /\ format' = opts.format[1] /\ workers' = opts.workers[1]
                 /\ timeout' = opts.timeout[1] /\ url' = opts.url[1]
                 /\ proxies' = << >>]_vars
    /\ [](appPc \in {"built", "run", "exit_ok"} => Unset(opts) = {})
    /\ []((appPc = "panicked" /\ Unset(opts) /= {})
             => NoEngine /\ NoRun /\ linesLoaded = 0)

(* build has failed for options of which only the URL was not set. *)
C15_Witness ==
    /\ appPc = "panicked" /\ report = "URL is required"
    /\ Unset(opts) = {"url"}
    /\ NoEngine /\ NoRun

(* ProxyParseError *)
ParseErrors == {"InvalidProxyPartAmountError", "ProxyPortNaNError"}

(* C16 as stated: a malformed line does not abort the load: load_from_file *)
(* returns to its caller, which is never stopped over a parse error.       *)
C16_Original ==
    ~(appPc = "panicked" /\ report \in ParseErrors)

(* C17: a freshly built engine holds no proxy; a load that returns appends *)
(* to the list, in order, one record for each line of its file (the        *)
(* records already loaded stay where they are); so the count is the number *)
(* of lines of the loads that returned, and is_empty holds exactly when    *)
(* the count is 0.                                                         *)
C17_LoadAppends ==
    /\ [][(appPc = "options" /\ appPc' = "built") => len' = 0 /\ is_empty']_vars
    /\ [][(appPc = "built" /\ appPc' = "built") =>
            \E file \in FilePool :
                /\ file.exists
                /\ \A i \in 1..Len(file.lines) : from_str(format, file.lines[i]).ok
                /\ proxies' = proxies \o [i \in 1..Len(file.lines) |->
                                            from_str(format, file.lines[i]).value[1]]
                /\ linesLoaded' = linesLoaded + Len(file.lines)]_vars
    /\ [](appPc \in {"built", "run", "exit_ok"}
             => /\ len = linesLoaded
                /\ is_empty <=> (len = 0))

(* Three lines loaded by at least two loads: three records, the first and  *)
(* the last of different lines.                                            *)
C17_Witness ==
    /\ appPc = "built" /\ linesLoaded = 3 /\ len = 3
    /\ proxies[1] /= proxies[3]

(* C18: with no proxy loaded main takes the branch that prints the notice  *)
(* and returns Ok: it neither panics nor calls run, and nothing follows;   *)
(* run is called only with at least one proxy loaded.                      *)
C18_NothingToTestIsNoError ==
    /\ [][(appPc = "built" /\ is_empty /\ appPc' \notin {"built", "panicked"})
             => /\ appPc' = "exit_ok"
                /\ report' = "No proxies loaded, you can't test nothing"
                /\ is_empty' /\ NoRun']_vars
    /\ [](appPc = "built" /\ is_empty => ENABLED NothingToTest /\ ~ENABLED StartRun)
    /\ [](appPc = "exit_ok" => is_empty /\ NoRun)
    /\ [](appPc = "run" => ~is_empty)
    /\ [][appPc /= "exit_ok"]_vars

(* main has returned Ok with the notice: nothing was loaded, no run exists. *)
C18_Witness ==
    /\ appPc = "exit_ok" /\ report = "No proxies loaded, you can't test nothing"
    /\ len = 0 /\ NoRun

(* The round trip of a probe applied on its own. The request goes out     *)
(* through the proxy: curl fetches the URL over the network, the proxy's   *)
(* name resolves and the proxy takes the connection. The response comes    *)
(* back: the proxy answers, and for a tunnelled target its answer opens    *)
(* the tunnel (2xx) and a TLS server with a trusted certificate answers    *)
(* through it. And curl does not give up before, which it does only when   *)
(* it has a limit.                                                         *)
InTime(c) == as_millis(c.timeout) = 0 \/ c.latency < as_millis(c.timeout) + c.slack

RoundTrip(c) ==
    /\ c.url.scheme \in {"http", "https", "ftp", ""}
    /\ c.net.connects /\ c.net.status > 0
    /\ c.url.scheme = "https" => c.net.status \in 200..299 /\ c.net.then = "answer"
    /\ InTime(c)

(* C19 as stated: the probe's outcome is a success exactly when the round  *)
(* trip through the proxy completes, whatever the HTTP status of the       *)
(* answer, and the success carries the time that elapsed in the closure;   *)
(* in every other case the outcome is a CurlError.                         *)
C19_Original ==
    (call.fn = "perform" /\ call.result /= NoResult) =>
        IF RoundTrip(call)
        THEN call.result = [kind |-> "Ok", cause |-> "-",
                            duration |-> from_millis(call.setup + call.latency)]
        ELSE call.result.kind = "CurlError"

(* C20: every outcome a unit holds, has pushed or has delivered is a       *)
(* success or a CurlError: no outcome is a SemaphoreAcquireError or an     *)
(* UnknownError. A unit at an exhausted gate waits: it has no outcome.     *)
C20_FailuresAreCurlErrors ==
    /\ \A r \in Outcomes :
          /\ r.kind \in {"Ok", "CurlError"}
          /\ r \notin {SemaphoreAcquireError, UnknownError}
    /\ \A u \in Units : unit[u].pc = "waiting" => unit[u].result = NoResult

(* A failure was delivered, the CurlError of a refused connection, while   *)
(* another unit waits at the gate, whose only permit is taken.             *)
C20_Witness ==
    /\ \E i \in 1..Len(delivered) : delivered[i].result = CurlError("CouldntConnect")
    /\ permits = 0
    /\ \E u \in Units : unit[u].pc = "waiting"

(* A field that is a 16-bit unsigned decimal: digits, after an optional    *)
(* sign, of a value up to 65535.                                           *)
IsU16Decimal(f) ==
    LET ds == IF f /= << >> /\ f[1] = "+" THEN Tail(f) ELSE f IN
    /\ ds /= << >>
    /\ \A i \in 1..Len(ds) : IsDigit(ds[i])
    /\ DecimalValue(ds) <= U16_MAX

(* The numeral of a port field without its sign and its leading zeros. *)
RECURSIVE Canonical(_)
Canonical(f) ==
    IF Len(f) > 1 /\ f[1] \in {"+", "0"} THEN Canonical(Tail(f)) ELSE f

(* http://{username}:{password}@{host}:{port} *)
Uri(username, password, host, port) ==
    Scheme \o username \o << ":" >> \o password \o << "@" >> \o host \o << ":" >> \o port

(* The fields of the line a rendered record was parsed from. *)
OriginFields == Split(call.origin[1])

(* C21 as stated: a line of four fields with a valid port parses, and      *)
(* rendering the record gives http://{username}:{password}@{host}:{port}   *)
(* of the line's fields.                                                   *)
C21_Original ==
    /\ (call.fn = "from_str" /\ call.done /\ Len(call.parts) = 4 /\ IsU16Decimal(call.parts[2]))
          => call.result.ok
    /\ (call.fn = "to_string" /\ call.done /\ call.origin /= None)
          => call.result = Ok(Uri(OriginFields[3], OriginFields[4], OriginFields[1], OriginFields[2]))

(* C21 amended: a line of four fields with a valid port parses, and        *)
(* rendering the record gives http://{username}:{password}@{host}:{port}   *)
(* with the username, password and host fields as they are, empty or not,  *)
(* and the port as the plain decimal numeral of its value: a sign or       *)
(* leading zeros of the port field are not rendered.                       *)
C21_RoundTripCanonicalPort ==
    /\ (call.fn = "from_str" /\ call.done /\ Len(call.parts) = 4 /\ IsU16Decimal(call.parts[2]))
          => call.result.ok
    /\ (call.fn = "to_string" /\ call.done /\ call.origin /= None)
          => call.result = Ok(Uri(OriginFields[3], OriginFields[4], OriginFields[1],
                                  Canonical(OriginFields[2])))

(* A line with an empty username and the port field 080 was parsed and     *)
(* rendered.                                                               *)
C21_Witness ==
    /\ call.fn = "to_string" /\ call.done /\ call.origin /= None /\ call.result.ok
    /\ OriginFields[3] = << >> /\ OriginFields[2] = << "0", "8", "0" >>

(* C22: parsing fails with InvalidProxyPartAmountError exactly when the    *)
(* line has not four ':'-separated fields, whatever its second field is;   *)
(* with four fields it fails with ProxyPortNaNError exactly when the       *)
(* second field is no 16-bit unsigned decimal; otherwise it succeeds with  *)
(* the record of the four fields.                                          *)
C22_ParseErrorsByPrecedence ==
    (call.fn = "from_str" /\ call.done) =>
        IF Len(call.parts) /= 4
        THEN call.result = Err("InvalidProxyPartAmountError")
        ELSE IF ~IsU16Decimal(call.parts[2])
        THEN call.result = Err("ProxyPortNaNError")
        ELSE /\ call.result.ok
             /\ call.result.value[1].host = call.parts[1]
             /\ RenderDecimal(call.result.value[1].port) = Canonical(call.parts[2])
             /\ call.result.value[1].username = Some(call.parts[3])
             /\ call.result.value[1].password = Some(call.parts[4])

(* A line of four fields whose port field is 65536 has failed on the port. *)
C22_Witness ==
    /\ call.fn = "from_str" /\ call.done
    /\ Len(call.parts) = 4 /\ call.parts[2] = << "6", "5", "5", "3", "6" >>
    /\ call.result = Err("ProxyPortNaNError")

(* C23 as stated: rendering any record yields the proxy URI, with the      *)
(* empty string in the place of an absent username or password.            *)
Credential(o) == IF o = None THEN << >> ELSE o[1]

C23_Original ==
    (call.fn = "to_string" /\ call.done) =>
        call.result = Ok(Uri(Credential(call.proxy.username), Credential(call.proxy.password),
                             call.proxy.host, RenderDecimal(call.proxy.port)))

(* C24: once the engine is built, its url, workers and timeout are the     *)
(* values the caller last asked for: the argument of the last call of the  *)
(* setter, which replaces an earlier argument or a default, or the default *)
(* when the setter was not called; and ProxyTester::builder() gives the    *)
(* options of ProxyTesterOptions::new().                                   *)
C24_BuilderRoundTrip ==
    /\ appPc \in {"built", "run", "exit_ok"}
          => /\ url = requested.url[1]
             /\ workers = requested.workers[1]
             /\ timeout = requested.timeout[1]
             /\ format = requested.format[1]
    /\ builder = OptionsNew

(* Built from the defaults with the limit and the URL set over them and    *)
(* the default timeout kept.                                               *)
C24_Witness ==
    /\ appPc = "built"
    /\ workers = 1 /\ url = HttpUrl /\ timeout = OptionsDefault.timeout[1]
    /\ requested.workers = Some(1)

(* C25: the default options are format HostPortUsernamePassword, 5         *)
(* workers, a timeout of 5000 ms and the URL https://google.com: build on  *)
(* them gives an engine with exactly these values, and a caller that       *)
(* starts from the defaults, whatever it sets afterwards, never has build  *)
(* panic over a missing option.                                            *)
C25_DefaultsBuild ==
    /\ (opts = OptionsDefault) => [](~(appPc = "panicked" /\ report \in {Required[f] : f \in DOMAIN Required}))
    /\ [][(opts = OptionsDefault /\ appPc = "options" /\ appPc' /= "options")
            => /\ appPc' = "built"
               /\ format' = HostPortUsernamePassword
               /\ workers' = 5
               /\ timeout' = from_millis(5000)
               /\ url' = Url("https", "google.com")]_vars

(* An engine built from the untouched defaults.                            *)
C25_Witness ==
    /\ appPc = "built"
    /\ opts = OptionsDefault /\ requested = OptionsDefault
    /\ format = HostPortUsernamePassword /\ workers = 5
    /\ timeout = from_millis(5000) /\ url = Url("https", "google.com")

(* C26: an iteration of the display loop that handles Esc or q leaves the  *)
(* exit flag set and the receiver closed, so the flag is never set over an *)
(* open receiver; and once the flag is set the loop does not iterate any   *)
(* more: no outcome is pushed to results_buffer, the selection and the     *)
(* flag stay, and all the loop does is return.                             *)
C26_ExitClosesAndStops ==
    /\ [](app.exit => rxClosed)
    /\ [][/\ \A key \in {"Esc", "q"} : KeyPress(key) => app'.exit /\ rxClosed'
          /\ app.exit => /\ delivered' = delivered
                         /\ app'.selected_proxy = app.selected_proxy
                         /\ app'.exit
                         /\ rxClosed'
                         /\ app'.pc \in {app.pc, "done"}]_vars

(* The loop has ended on the exit flag with an outcome still buffered and  *)
(* one already shown.                                                      *)
C26_Witness ==
    /\ app.pc = "done" /\ app.exit /\ rxClosed
    /\ chan /= << >>
    /\ delivered /= << >>

(* C27: with L >= 1 outcomes in results_buffer and the selected index s    *)
(* below L, an iteration that handles Down (or k, bound alike) leaves the  *)
(* index at s + 1, or at 0 when s was L - 1, and one that handles Up (or   *)
(* i) leaves it at s - 1, or at L - 1 when s was 0.                        *)
C27_CyclicSelection ==
    LET L == Len(delivered)
        s == app.selected_proxy
    IN  (app.pc = "loop" /\ ~app.exit /\ L >= 1 /\ s \in 0..(L - 1)) =>
           /\ \A key \in {"Down", "k"} :
                 ENABLED (/\ KeyPress(key)
                          /\ app'.selected_proxy = IF s = L - 1 THEN 0 ELSE s + 1)
           /\ \A key \in {"Up", "i"} :
                 ENABLED (/\ KeyPress(key)
                          /\ app'.selected_proxy = IF s = 0 THEN L - 1 ELSE s - 1)

(* The last of two rows is selected in a build that checks overflow, where *)
(* only a key handled over a buffer that is not empty moves the selection. *)
C27_Witness ==
    /\ app.pc = "loop" /\ app.overflow_checks
    /\ Len(delivered) = 2
    /\ app.selected_proxy = 1

(* C28: an iteration that handles a key other than Esc, q, Down, k, Up and *)
(* i ends in the state it began in: the selected index, the exit flag, the *)
(* results buffer and the open or closed receiver are as before.           *)
C28_OtherKeysDoNothing ==
    (app.pc = "loop" /\ ~app.exit) =>
        \A key \in Keys \ {"Esc", "q", "Down", "k", "Up", "i"} :
            ENABLED (/\ KeyPress(key)
                     /\ app'.selected_proxy = app.selected_proxy
                     /\ app'.exit = app.exit
                     /\ delivered' = delivered
                     /\ rxClosed' = rxClosed
                     /\ app' = app)

(* A display with two rows, the second selected and the receiver open, in  *)
(* which a key that is not bound can be handled.                           *)
C28_Witness ==
    /\ ENABLED KeyPress("BackTab")
    /\ Len(delivered) = 2 /\ app.selected_proxy = 1
    /\ ~app.exit /\ ~rxClosed

(* C29 as stated: the permit is given back when the probe completes,      *)
(* before the push, so a unit that is pushing or suspended on a full       *)
(* buffer holds no permit.                                                 *)
C29_Original ==
    \A u \in Units : unit[u].pc = "sending" => ~unit[u].permit

(* C29: a unit acquires a permit, probes, pushes its outcome and gives the *)
(* permit back only when its block ends, after the push (or after the      *)
(* failed push): it holds the permit exactly from the acquisition to its   *)
(* end, so a unit pushing into, or suspended on, a full buffer still holds *)
(* its permit.                                                             *)
C29_PermitHeldThroughPush ==
    /\ [](\A u \in Units :
             unit[u].permit <=> unit[u].pc \in {"running", "sending", "sent", "panicking"})
    /\ [][\A u \in Units :
             /\ unit[u].pc = "sending" => unit'[u].permit
             /\ (unit[u].permit /\ ~unit'[u].permit)
                   => /\ unit[u].pc \in {"sent", "panicking"}
                      /\ unit'[u].pc \in {"exiting", "unwinding"}]_vars

(* The buffer is full and the unit suspended on it holds the only permit. *)
C29_Witness ==
    /\ Len(chan) = CHANNEL_SIZE
    /\ permits = 0
    /\ \E u \in Units : unit[u].pc = "sending" /\ unit[u].permit

(* The units whose probe has completed, and those among them that hold an *)
(* outcome they have not pushed yet.                                       *)
Completed ==
    {u \in Units : unit[u].pc \in {"sending", "sent", "exiting", "done",
                                    "panicking", "unwinding", "panicked"}}
Holding == {u \in Units : unit[u].pc = "sending"}

(* C30 as stated: the completed probes whose outcome the consumer has not  *)
(* received are at most CHANNEL_SIZE + k.                                  *)
C30_Original ==
    Cardinality(Completed) - Len(delivered) <= CHANNEL_SIZE + workers

(* C30: the outcomes of completed probes that the consumer has not         *)
(* received yet are the buffered ones, at most CHANNEL_SIZE, and those     *)
(* held by units that have not pushed them yet, at most k, so there are at *)
(* most CHANNEL_SIZE + k of them; while the consumer has not cancelled     *)
(* these are the outcomes of all the completed probes it has not received, *)
(* and after it has cancelled the remaining ones were discarded by their   *)
(* units.                                                                  *)
C30_PendingOutcomesBounded ==
    /\ Len(chan) <= CHANNEL_SIZE
    /\ Cardinality(Holding) <= workers
    /\ Len(chan) + Cardinality(Holding) <= CHANNEL_SIZE + workers
    /\ ~rxClosed => Cardinality(Completed) - Len(delivered) = Len(chan) + Cardinality(Holding)
    /\ Cardinality(Completed) - Len(delivered)
          <= Len(chan) + Cardinality(Holding)
             + Cardinality({u \in Units : unit[u].pc \in {"panicking", "unwinding", "panicked"}})

(* The bound is met: the buffer is full and k >= 1 units hold an outcome.  *)
C30_Witness ==
    /\ workers >= 1
    /\ ~rxClosed
    /\ Cardinality(Completed) - Len(delivered) = CHANNEL_SIZE + workers

C32_ZeroWorkers ==
    /\ [](appPc = "options"
             => ENABLED (set_workers(0) /\ opts'.workers = Some(0) /\ appPc' = "options"))
    /\ [][(appPc = "options" /\ opts.workers = Some(0) /\ appPc' /= "options")
             => \/ appPc' = "built" /\ workers' = 0
                \/ appPc' = "panicked" /\ Missing(opts) /= "-"
                      /\ report' /= Required.workers]_vars
    /\ []((appPc = "run" /\ workers = 0 /\ ~is_empty)
             => /\ \A u \in Units : unit[u].pc \in {"unspawned", "waiting"}
                /\ Holders = {}
                /\ chan = << >> /\ delivered = << >>
                /\ senders >= 1 /\ joinerPc /= "dropped"
                /\ ~rxClosed => ~eos)

(* A run with limit 0 that has returned the receiver: both units wait at   *)
(* the gate and the joiner waits for them.                                 *)
C32_Witness ==
    /\ appPc = "run" /\ workers = 0 /\ Len(proxies) = 2
    /\ mainPc = "returned" /\ joinerPc = "joining"
    /\ \A u \in Units : unit[u].pc = "waiting"

(* C33: a run over no proxies schedules no unit, buffers and delivers no   *)
(* outcome and takes no permit; run returns the receiver, the joiner       *)
(* completes over its empty list of handles and drops the sender, so the   *)
(* stream closes; the consumer that gets to the end of the stream has      *)
(* received nothing.                                                       *)
C33_EmptyRunCloses ==
    /\ [](is_empty => /\ unit = << >> /\ handles = << >>
                      /\ chan = << >> /\ delivered = << >>
                      /\ permits = workers
                      /\ senders \in {0, 1})
    /\ is_empty ~> (mainPc = "returned" /\ joinerPc = "dropped" /\ senders = 0)

(* The run over no proxies has returned and closed its stream, and the     *)
(* consumer has seen the end of it.                                        *)
C33_Witness ==
    /\ is_empty /\ mainPc = "returned" /\ senders = 0
    /\ eos /\ ~rxClosed /\ delivered = << >>

(* C34: run reads the engine and changes nothing in it: no step of the run *)
(* changes the proxy list, its length, the URL, the limit or the timeout.  *)
(* The run works on the list as it was when run was called: its units are  *)
(* the proxies loaded by then, one each and in order, and a load after run *)
(* has returned appends to the engine's list while the run keeps its       *)
(* units, adds none and probes none of the new proxies.                    *)
C34_RunWorksOnSnapshot ==
    /\ [](/\ Len(unit) <= Len(proxies)
          /\ \A u \in Units : unit[u].proxy = proxies[u]
          /\ \A i \in 1..Len(chan) : \E u \in Units : chan[i].proxy = unit[u].proxy
          /\ \A i \in 1..Len(delivered) : \E u \in Units : delivered[i].proxy = unit[u].proxy)
    /\ [][/\ url' = url /\ workers' = workers /\ timeout' = timeout /\ format' = format
          /\ Len(unit') = Len(unit)
          /\ \A u \in Units : unit'[u].proxy = unit[u].proxy
          /\ engine' /= engine => proxies' = proxies
          /\ proxies' /= proxies
                => /\ mainPc = "returned"
                   /\ Len(proxies') > Len(proxies)
                   /\ SubSeq(proxies', 1, Len(proxies)) = proxies]_vars

(* The run of one proxy is over, its outcome pushed and the stream closed, *)
(* while the engine holds proxies that were loaded after run returned.     *)
C34_Witness ==
    /\ appPc = "run" /\ Len(unit) = 1 /\ Len(proxies) > Len(unit)
    /\ AllFinished /\ joinerPc = "dropped" /\ senders = 0
    /\ Len(chan) + Len(delivered) = 1

(* The units of the run that is not in turn: those that hold a permit and *)
(* those that have pushed their outcome.                                   *)
OtherUnits == 1..Len(other.unit)
OtherHolders == {u \in OtherUnits : other.unit[u].permit}
OtherPushed == {u \in OtherUnits : other.unit[u].pc \in {"sent", "exiting", "done"}}

(* C35: with two runs of one engine under way, each run has its own gate   *)
(* of k permits: the permits it has left and the permits its units hold    *)
(* add up to k, so at most k of its units are in flight, and a unit of a   *)
(* run none of whose units holds a permit can acquire one, whatever the    *)
(* other run holds. Each run has its own stream: while its consumer has    *)
(* not cancelled, the outcomes buffered in and received from a run's       *)
(* stream are as many as the units of that run that have pushed, each the  *)
(* outcome of a proxy of the engine.                                       *)
C35_RunsAreIndependent ==
    /\ permits + Cardinality(Holders) = workers
    /\ ~rxClosed => Len(chan) + Len(delivered) = Cardinality(Pushed)
    /\ \A u \in Units :
          (unit[u].pc = "waiting" /\ Holders = {}) => ENABLED Acquire(u)
    /\ other /= NoOther =>
          /\ other.permits + Cardinality(OtherHolders) = workers
          /\ ~other.rxClosed
                => Len(other.chan) + Len(other.delivered) = Cardinality(OtherPushed)
          /\ Len(other.unit) = Len(proxies) /\ Len(unit) = Len(proxies)

(* Both runs have a unit in flight at once, more than the k = 1 of either  *)
(* gate, and the first run has delivered an outcome while the stream of    *)
(* the second is still empty.                                              *)
C35_Witness ==
    /\ other /= NoOther
    /\ other.run = 1
    /\ Cardinality(Holders) + Cardinality(OtherHolders) > workers
    /\ other.delivered /= << >>
    /\ chan = << >> /\ delivered = << >>

(* C36: started with the first row selected, the display never overflows  *)
(* in results_buffer.len() - 1 when it handles Up or Down, and the         *)
(* selected index stays a row of the received results: within 0..L - 1 for *)
(* L >= 1 results, and 0 while none has been received.                     *)
C36_Original ==
    /\ app.pc /= "panicked"
    /\ app.pc \in {"loop", "done"}
          => app.selected_proxy \in 0..(IF delivered = << >> THEN 0 ELSE Len(delivered) - 1)

(* C37: in the display the proxy count taken from the engine when the App *)
(* is made is at least 1, and the received results are never more than     *)
(* that count, so the ratio received / count of the progress gauge is      *)
(* defined and lies within [0, 1].                                         *)
C37_ProgressRatioInRange ==
    app.pc /= "none" =>
        /\ app.proxy_count >= 1
        /\ app.proxy_count = Len(proxies)
        /\ 0 <= Len(delivered)
        /\ Len(delivered) <= app.proxy_count

(* The gauge is full: both results of a run of two proxies are received.   *)
C37_Witness ==
    /\ app.pc = "loop"
    /\ app.proxy_count = 2
    /\ Len(delivered) = app.proxy_count

====
